---------------------------- MODULE Spec2Model ----------------------------
(***************************************************************************)
(* Model of the generated end-to-end scenario scripts of                   *)
(* mattduff36/avsworklog (testsprite_tests/TC*.py).  Every script is one   *)
(* coroutine run_test(): acquire a Playwright driver, a browser, a context *)
(* and a page inside a try block, drive a fixed list of awaited steps,     *)
(* evaluate the final expectations, and release the session in the finally *)
(* block.  The module-level statement asyncio.run(run_test()) runs it and  *)
(* lets an exception that leaves run_test reach the interpreter, which     *)
(* prints the exception chain on stderr.                                   *)
(*                                                                         *)
(* Each awaited call is one atomic action; what the browser answers (ok,   *)
(* a timeout, another Playwright error, an unmet expectation) is chosen    *)
(* nondeterministically.                                                   *)
(***************************************************************************)
EXTENDS Naturals, Sequences, FiniteSets

(* Largest number of frames page.frames may hold when the loop starts.     *)
MaxFrames == 2

(* context.set_default_timeout(5000): timeout of calls given none (fill).  *)
DefaultTimeout == 5000

VARIABLES
  tc,        \* the scenario (script) being run
  pc,        \* position of run_test
  ip,        \* index of the next statement of the scenario's step list
  pw,        \* local pw:      "None" or "obj"
  browser,   \* local browser: "None" or "obj"
  context,   \* local context: "None" or "obj"
  page,      \* local page:    "unbound" or "obj"
  nframes,   \* length of the list page.frames the for loop iterates over
  fi,        \* number of frames the for loop has visited
  exc,       \* exception in flight, as its chain (oldest first); <<>> if none
  verdict,   \* how the try block was left: "none", "Passed" or "Failed"
  trace,     \* every awaited call made so far, with its result
  stderr,    \* what the interpreter has printed on stderr
  hnd,       \* the objects the locals pw, browser, context, page refer to
  ui,        \* the page of this run: location, input values, submitted logins
  app0,      \* the application's state when it was last reset
  pid,       \* the interpreter process executing this run
  bg,        \* the other interpreter process, suspended (NoProc if none)
  env,       \* how the application under test and the browser answer
  app,       \* the application's persisted state, shared by all runs
  objs       \* every driver, browser, context and page created so far

vars == <<tc, pc, ip, pw, browser, context, page, nframes, fi, exc, verdict, trace, stderr,
          hnd, ui, app0, pid, bg, env, app, objs>>

Scenarios ==
  {"TC001", "TC002", "TC003", "TC006", "TC010", "TC011", "TC014", "TC016", "TC019"}

Steps_TC001 ==
  << [op |-> "settle", loc |-> "", arg |-> "", timeout |-> 3000, wrapped |-> FALSE, line |-> 53],
     [op |-> "click", loc |-> "xpath=html/body/div[2]/nav/div[2]/div/div/div/a", arg |-> "", timeout |-> 5000, wrapped |-> FALSE, line |-> 53],
     [op |-> "settle", loc |-> "", arg |-> "", timeout |-> 3000, wrapped |-> FALSE, line |-> 60],
     [op |-> "fill", loc |-> "xpath=html/body/div[2]/div[2]/div[3]/div/form/div/input", arg |-> "admin@mpdee.co.uk", timeout |-> DefaultTimeout, wrapped |-> FALSE, line |-> 60],
     [op |-> "settle", loc |-> "", arg |-> "", timeout |-> 3000, wrapped |-> FALSE, line |-> 66],
     [op |-> "fill", loc |-> "xpath=html/body/div[2]/div[2]/div[3]/div/form/div[2]/input", arg |-> "Q-0ww9qe?", timeout |-> DefaultTimeout, wrapped |-> FALSE, line |-> 66],
     [op |-> "settle", loc |-> "", arg |-> "", timeout |-> 3000, wrapped |-> FALSE, line |-> 72],
     [op |-> "click", loc |-> "xpath=html/body/div[2]/div[2]/div[3]/div/form/button", arg |-> "", timeout |-> 5000, wrapped |-> FALSE, line |-> 72],
     [op |-> "settle", loc |-> "", arg |-> "", timeout |-> 3000, wrapped |-> FALSE, line |-> 79],
     [op |-> "click", loc |-> "xpath=html/body/div[2]/nav/div[2]/div/div[2]/div[2]/button", arg |-> "", timeout |-> 5000, wrapped |-> FALSE, line |-> 79],
     [op |-> "settle", loc |-> "", arg |-> "", timeout |-> 3000, wrapped |-> FALSE, line |-> 86],
     [op |-> "fill", loc |-> "xpath=html/body/div[2]/div[2]/div[3]/div/form/div/input", arg |-> "admin@mpdee.co.uk", timeout |-> DefaultTimeout, wrapped |-> FALSE, line |-> 86],
     [op |-> "settle", loc |-> "", arg |-> "", timeout |-> 3000, wrapped |-> FALSE, line |-> 92],
     [op |-> "fill", loc |-> "xpath=html/body/div[2]/div[2]/div[3]/div/form/div[2]/input", arg |-> "Q-0ww9qe?", timeout |-> DefaultTimeout, wrapped |-> FALSE, line |-> 92],
     [op |-> "settle", loc |-> "", arg |-> "", timeout |-> 3000, wrapped |-> FALSE, line |-> 98],
     [op |-> "click", loc |-> "xpath=html/body/div[2]/div[2]/div[3]/div/form/button", arg |-> "", timeout |-> 5000, wrapped |-> FALSE, line |-> 98],
     [op |-> "settle", loc |-> "", arg |-> "", timeout |-> 3000, wrapped |-> FALSE, line |-> 105],
     [op |-> "click", loc |-> "xpath=html/body/div[2]/nav/div[2]/div/div[2]/div[2]/button", arg |-> "", timeout |-> 5000, wrapped |-> FALSE, line |-> 105],
     [op |-> "settle", loc |-> "", arg |-> "", timeout |-> 3000, wrapped |-> FALSE, line |-> 112],
     [op |-> "fill", loc |-> "xpath=html/body/div[2]/div[2]/div[3]/div/form/div/input", arg |-> "admin@mpdee.co.uk", timeout |-> DefaultTimeout, wrapped |-> FALSE, line |-> 112],
     [op |-> "settle", loc |-> "", arg |-> "", timeout |-> 3000, wrapped |-> FALSE, line |-> 118],
     [op |-> "fill", loc |-> "xpath=html/body/div[2]/div[2]/div[3]/div/form/div[2]/input", arg |-> "Q-0ww9qe?", timeout |-> DefaultTimeout, wrapped |-> FALSE, line |-> 118],
     [op |-> "settle", loc |-> "", arg |-> "", timeout |-> 3000, wrapped |-> FALSE, line |-> 124],
     [op |-> "click", loc |-> "xpath=html/body/div[2]/div[2]/div[3]/div/form/button", arg |-> "", timeout |-> 5000, wrapped |-> FALSE, line |-> 124],
     [op |-> "settle", loc |-> "", arg |-> "", timeout |-> 3000, wrapped |-> FALSE, line |-> 131],
     [op |-> "click", loc |-> "xpath=html/body/div[2]/div[4]/main/div/div[2]/div/div", arg |-> "", timeout |-> 5000, wrapped |-> FALSE, line |-> 131],
     [op |-> "settle", loc |-> "", arg |-> "", timeout |-> 3000, wrapped |-> FALSE, line |-> 138],
     [op |-> "click", loc |-> "xpath=html/body/div[2]/div[4]/main/div/div[2]/div/div[2]", arg |-> "", timeout |-> 5000, wrapped |-> FALSE, line |-> 138],
     [op |-> "settle", loc |-> "", arg |-> "", timeout |-> 3000, wrapped |-> FALSE, line |-> 145],
     [op |-> "click", loc |-> "xpath=html/body/div[2]/div[4]/main/div/div[2]/div/div[3]", arg |-> "", timeout |-> 5000, wrapped |-> FALSE, line |-> 145],
     [op |-> "expect", loc |-> "text=Employee Dashboard Access Granted", arg |-> "Test case failed: Employee authentication using Supabase Auth did not succeed or dashboard with appropriate permissions was not displayed as expected.", timeout |-> 30000, wrapped |-> TRUE, line |-> 151],
     [op |-> "sleep", loc |-> "", arg |-> "", timeout |-> 5000, wrapped |-> FALSE, line |-> 154] >>

Steps_TC002 ==
  << [op |-> "settle", loc |-> "", arg |-> "", timeout |-> 3000, wrapped |-> FALSE, line |-> 53],
     [op |-> "click", loc |-> "xpath=html/body/div[2]/nav/div[2]/div/div[2]/div[2]/button", arg |-> "", timeout |-> 5000, wrapped |-> FALSE, line |-> 53],
     [op |-> "settle", loc |-> "", arg |-> "", timeout |-> 3000, wrapped |-> FALSE, line |-> 60],
     [op |-> "fill", loc |-> "xpath=html/body/div[2]/div[2]/div[3]/div/form/div/input", arg |-> "admin@mpdee.co.uk", timeout |-> DefaultTimeout, wrapped |-> FALSE, line |-> 60],
     [op |-> "settle", loc |-> "", arg |-> "", timeout |-> 3000, wrapped |-> FALSE, line |-> 66],
     [op |-> "fill", loc |-> "xpath=html/body/div[2]/div[2]/div[3]/div/form/div[2]/input", arg |-> "Q-0ww9qe?", timeout |-> DefaultTimeout, wrapped |-> FALSE, line |-> 66],
     [op |-> "settle", loc |-> "", arg |-> "", timeout |-> 3000, wrapped |-> FALSE, line |-> 72],
     [op |-> "click", loc |-> "xpath=html/body/div[2]/div[2]/div[3]/div/form/button", arg |-> "", timeout |-> 5000, wrapped |-> FALSE, line |-> 72],
     [op |-> "settle", loc |-> "", arg |-> "", timeout |-> 3000, wrapped |-> FALSE, line |-> 79],
     [op |-> "click", loc |-> "xpath=html/body/div[2]/div[4]/main/div/div[2]/div/a[6]", arg |-> "", timeout |-> 5000, wrapped |-> FALSE, line |-> 79],
     [op |-> "settle", loc |-> "", arg |-> "", timeout |-> 3000, wrapped |-> FALSE, line |-> 86],
     [op |-> "click", loc |-> "xpath=html/body/div[2]/div[4]/main/div/div/div/button", arg |-> "", timeout |-> 5000, wrapped |-> FALSE, line |-> 86],
     [op |-> "settle", loc |-> "", arg |-> "", timeout |-> 3000, wrapped |-> FALSE, line |-> 93],
     [op |-> "click", loc |-> "xpath=html/body/div[5]/div[2]/div/button", arg |-> "", timeout |-> 5000, wrapped |-> FALSE, line |-> 93],
     [op |-> "settle", loc |-> "", arg |-> "", timeout |-> 3000, wrapped |-> FALSE, line |-> 100],
     [op |-> "click", loc |-> "xpath=html/body/div[6]/div/div/div", arg |-> "", timeout |-> 5000, wrapped |-> FALSE, line |-> 100],
     [op |-> "settle", loc |-> "", arg |-> "", timeout |-> 3000, wrapped |-> FALSE, line |-> 107],
     [op |-> "click", loc |-> "xpath=html/body/div[5]/div[2]/div[2]/button", arg |-> "", timeout |-> 5000, wrapped |-> FALSE, line |-> 107],
     [op |-> "settle", loc |-> "", arg |-> "", timeout |-> 3000, wrapped |-> FALSE, line |-> 114],
     [op |-> "click", loc |-> "xpath=html/body/div[6]/div/div/div[2]", arg |-> "", timeout |-> 5000, wrapped |-> FALSE, line |-> 114],
     [op |-> "settle", loc |-> "", arg |-> "", timeout |-> 3000, wrapped |-> FALSE, line |-> 121],
     [op |-> "click", loc |-> "xpath=html/body/div[5]/div[2]/div[3]/button", arg |-> "", timeout |-> 5000, wrapped |-> FALSE, line |-> 121],
     [op |-> "settle", loc |-> "", arg |-> "", timeout |-> 3000, wrapped |-> FALSE, line |-> 128],
     [op |-> "click", loc |-> "xpath=html/body/div[6]/div/div/div[3]", arg |-> "", timeout |-> 5000, wrapped |-> FALSE, line |-> 128],
     [op |-> "settle", loc |-> "", arg |-> "", timeout |-> 3000, wrapped |-> FALSE, line |-> 135],
     [op |-> "fill", loc |-> "xpath=html/body/div[5]/div[2]/div[4]/input", arg |-> "12345", timeout |-> DefaultTimeout, wrapped |-> FALSE, line |-> 135],
     [op |-> "settle", loc |-> "", arg |-> "", timeout |-> 3000, wrapped |-> FALSE, line |-> 141],
     [op |-> "fill", loc |-> "xpath=html/body/div[5]/div[2]/div[5]/textarea", arg |-> "Electrical system requires inspection and repair.", timeout |-> DefaultTimeout, wrapped |-> FALSE, line |-> 141],
     [op |-> "settle", loc |-> "", arg |-> "", timeout |-> 3000, wrapped |-> FALSE, line |-> 147],
     [op |-> "click", loc |-> "xpath=html/body/div[5]", arg |-> "", timeout |-> 5000, wrapped |-> FALSE, line |-> 147],
     [op |-> "expect", loc |-> "text=Nonexistent Category Badge", arg |-> "Test case failed: The test plan execution failed to create a new workshop task with correct category and subcategory badges, colors, and icons as expected.", timeout |-> 1000, wrapped |-> TRUE, line |-> 153],
     [op |-> "sleep", loc |-> "", arg |-> "", timeout |-> 5000, wrapped |-> FALSE, line |-> 156] >>

Steps_TC003 ==
  << [op |-> "settle", loc |-> "", arg |-> "", timeout |-> 3000, wrapped |-> FALSE, line |-> 53],
     [op |-> "click", loc |-> "xpath=html/body/div[2]/nav/div[2]/div/div[2]/div[2]/button", arg |-> "", timeout |-> 5000, wrapped |-> FALSE, line |-> 53],
     [op |-> "settle", loc |-> "", arg |-> "", timeout |-> 3000, wrapped |-> FALSE, line |-> 60],
     [op |-> "fill", loc |-> "xpath=html/body/div[2]/div[2]/div[3]/div/form/div/input", arg |-> "admin@mpdee.co.uk", timeout |-> DefaultTimeout, wrapped |-> FALSE, line |-> 60],
     [op |-> "settle", loc |-> "", arg |-> "", timeout |-> 3000, wrapped |-> FALSE, line |-> 66],
     [op |-> "fill", loc |-> "xpath=html/body/div[2]/div[2]/div[3]/div/form/div[2]/input", arg |-> "Q-0ww9qe?", timeout |-> DefaultTimeout, wrapped |-> FALSE, line |-> 66],
     [op |-> "settle", loc |-> "", arg |-> "", timeout |-> 3000, wrapped |-> FALSE, line |-> 72],
     [op |-> "click", loc |-> "xpath=html/body/div[2]/div[2]/div[3]/div/form/button", arg |-> "", timeout |-> 5000, wrapped |-> FALSE, line |-> 72],
     [op |-> "settle", loc |-> "", arg |-> "", timeout |-> 3000, wrapped |-> FALSE, line |-> 79],
     [op |-> "click", loc |-> "xpath=html/body/div[2]/nav/div[2]/div/div/div/a[7]", arg |-> "", timeout |-> 5000, wrapped |-> FALSE, line |-> 79],
     [op |-> "settle", loc |-> "", arg |-> "", timeout |-> 3000, wrapped |-> FALSE, line |-> 86],
     [op |-> "click", loc |-> "xpath=html/body/div[2]/div[4]/main/div/div[2]/div[2]/div[3]/div/div/div/div/div/div/div/div[2]/button", arg |-> "", timeout |-> 5000, wrapped |-> FALSE, line |-> 86],
     [op |-> "settle", loc |-> "", arg |-> "", timeout |-> 3000, wrapped |-> FALSE, line |-> 93],
     [op |-> "fill", loc |-> "xpath=html/body/div[5]/div[3]/textarea", arg |-> "This is a test comment.", timeout |-> DefaultTimeout, wrapped |-> FALSE, line |-> 93],
     [op |-> "settle", loc |-> "", arg |-> "", timeout |-> 3000, wrapped |-> FALSE, line |-> 100],
     [op |-> "click", loc |-> "xpath=html/body/div[5]/button", arg |-> "", timeout |-> 5000, wrapped |-> FALSE, line |-> 100],
     [op |-> "settle", loc |-> "", arg |-> "", timeout |-> 3000, wrapped |-> FALSE, line |-> 107],
     [op |-> "click", loc |-> "xpath=html/body/div[2]/div[4]/main/div/div[2]/div[2]/div[3]/div/div/div/div/div/div/div/div[2]/button[3]", arg |-> "", timeout |-> 5000, wrapped |-> FALSE, line |-> 107],
     [op |-> "settle", loc |-> "", arg |-> "", timeout |-> 3000, wrapped |-> FALSE, line |-> 114],
     [op |-> "click", loc |-> "xpath=html/body/div[5]/button", arg |-> "", timeout |-> 5000, wrapped |-> FALSE, line |-> 114],
     [op |-> "settle", loc |-> "", arg |-> "", timeout |-> 3000, wrapped |-> FALSE, line |-> 121],
     [op |-> "click", loc |-> "xpath=html/body/div[2]/div[4]/main/div/div[2]/div[2]/div[3]/div/div/div/div/div/div/div/div[2]/button[2]", arg |-> "", timeout |-> 5000, wrapped |-> FALSE, line |-> 121],
     [op |-> "settle", loc |-> "", arg |-> "", timeout |-> 3000, wrapped |-> FALSE, line |-> 128],
     [op |-> "click", loc |-> "xpath=html/body/div[5]/div[3]/button", arg |-> "", timeout |-> 5000, wrapped |-> FALSE, line |-> 128],
     [op |-> "expect", loc |-> "text=Comment Added Successfully", arg |-> "Test case failed: The test plan execution for adding, editing, and deleting comments on a workshop task timeline did not complete successfully. The comment was not found with correct author and timestamp, or the edit/delete operations did not reflect properly.", timeout |-> 1000, wrapped |-> TRUE, line |-> 134],
     [op |-> "sleep", loc |-> "", arg |-> "", timeout |-> 5000, wrapped |-> FALSE, line |-> 137] >>

Steps_TC006 ==
  << [op |-> "settle", loc |-> "", arg |-> "", timeout |-> 3000, wrapped |-> FALSE, line |-> 53],
     [op |-> "click", loc |-> "xpath=html/body/div[2]/nav/div[2]/div/div[2]/div[2]/button", arg |-> "", timeout |-> 5000, wrapped |-> FALSE, line |-> 53],
     [op |-> "settle", loc |-> "", arg |-> "", timeout |-> 3000, wrapped |-> FALSE, line |-> 60],
     [op |-> "fill", loc |-> "xpath=html/body/div[2]/div[2]/div[3]/div/form/div/input", arg |-> "admin@mpdee.co.uk", timeout |-> DefaultTimeout, wrapped |-> FALSE, line |-> 60],
     [op |-> "settle", loc |-> "", arg |-> "", timeout |-> 3000, wrapped |-> FALSE, line |-> 66],
     [op |-> "fill", loc |-> "xpath=html/body/div[2]/div[2]/div[3]/div/form/div[2]/input", arg |-> "Q-0ww9qe?", timeout |-> DefaultTimeout, wrapped |-> FALSE, line |-> 66],
     [op |-> "settle", loc |-> "", arg |-> "", timeout |-> 3000, wrapped |-> FALSE, line |-> 72],
     [op |-> "click", loc |-> "xpath=html/body/div[2]/div[2]/div[3]/div/form/button", arg |-> "", timeout |-> 5000, wrapped |-> FALSE, line |-> 72],
     [op |-> "settle", loc |-> "", arg |-> "", timeout |-> 3000, wrapped |-> FALSE, line |-> 79],
     [op |-> "click", loc |-> "xpath=html/body/div[2]/nav/div[2]/div/div/div/a[6]", arg |-> "", timeout |-> 5000, wrapped |-> FALSE, line |-> 79],
     [op |-> "settle", loc |-> "", arg |-> "", timeout |-> 3000, wrapped |-> FALSE, line |-> 86],
     [op |-> "click", loc |-> "xpath=html/body/div[2]/nav/div[2]/div/div[2]/div[2]/button", arg |-> "", timeout |-> 5000, wrapped |-> FALSE, line |-> 86],
     [op |-> "settle", loc |-> "", arg |-> "", timeout |-> 3000, wrapped |-> FALSE, line |-> 93],
     [op |-> "fill", loc |-> "xpath=html/body/div[2]/div[2]/div[3]/div/form/div/input", arg |-> "admin@mpdee.co.uk", timeout |-> DefaultTimeout, wrapped |-> FALSE, line |-> 93],
     [op |-> "settle", loc |-> "", arg |-> "", timeout |-> 3000, wrapped |-> FALSE, line |-> 99],
     [op |-> "fill", loc |-> "xpath=html/body/div[2]/div[2]/div[3]/div/form/div[2]/input", arg |-> "Q-0ww9qe?", timeout |-> DefaultTimeout, wrapped |-> FALSE, line |-> 99],
     [op |-> "settle", loc |-> "", arg |-> "", timeout |-> 3000, wrapped |-> FALSE, line |-> 105],
     [op |-> "click", loc |-> "xpath=html/body/div[2]/div[2]/div[3]/div/form/button", arg |-> "", timeout |-> 5000, wrapped |-> FALSE, line |-> 105],
     [op |-> "settle", loc |-> "", arg |-> "", timeout |-> 3000, wrapped |-> FALSE, line |-> 112],
     [op |-> "click", loc |-> "xpath=html/body/div[2]/nav/div[2]/div/div/div/a[6]", arg |-> "", timeout |-> 5000, wrapped |-> FALSE, line |-> 112],
     [op |-> "settle", loc |-> "", arg |-> "", timeout |-> 3000, wrapped |-> FALSE, line |-> 119],
     [op |-> "click", loc |-> "xpath=html/body/div[2]/nav/div[2]/div/div[2]/div[2]/button", arg |-> "", timeout |-> 5000, wrapped |-> FALSE, line |-> 119],
     [op |-> "settle", loc |-> "", arg |-> "", timeout |-> 3000, wrapped |-> FALSE, line |-> 126],
     [op |-> "fill", loc |-> "xpath=html/body/div[2]/div[2]/div[3]/div/form/div/input", arg |-> "admin@mpdee.co.uk", timeout |-> DefaultTimeout, wrapped |-> FALSE, line |-> 126],
     [op |-> "settle", loc |-> "", arg |-> "", timeout |-> 3000, wrapped |-> FALSE, line |-> 132],
     [op |-> "fill", loc |-> "xpath=html/body/div[2]/div[2]/div[3]/div/form/div[2]/input", arg |-> "Q-0ww9qe?", timeout |-> DefaultTimeout, wrapped |-> FALSE, line |-> 132],
     [op |-> "settle", loc |-> "", arg |-> "", timeout |-> 3000, wrapped |-> FALSE, line |-> 138],
     [op |-> "click", loc |-> "xpath=html/body/div[2]/div[2]/div[3]/div/form/button", arg |-> "", timeout |-> 5000, wrapped |-> FALSE, line |-> 138],
     [op |-> "settle", loc |-> "", arg |-> "", timeout |-> 3000, wrapped |-> FALSE, line |-> 145],
     [op |-> "click", loc |-> "xpath=html/body/div[2]/nav/div[2]/div/div/div/a[6]", arg |-> "", timeout |-> 5000, wrapped |-> FALSE, line |-> 145],
     [op |-> "settle", loc |-> "", arg |-> "", timeout |-> 3000, wrapped |-> FALSE, line |-> 152],
     [op |-> "click", loc |-> "xpath=html/body/div[2]/div[4]/main/div/div[2]/div/button[2]", arg |-> "", timeout |-> 5000, wrapped |-> FALSE, line |-> 152],
     [op |-> "settle", loc |-> "", arg |-> "", timeout |-> 3000, wrapped |-> FALSE, line |-> 159],
     [op |-> "click", loc |-> "xpath=html/body/div[2]/div[4]/main/div/div[2]/div/button[3]", arg |-> "", timeout |-> 5000, wrapped |-> FALSE, line |-> 159],
     [op |-> "settle", loc |-> "", arg |-> "", timeout |-> 3000, wrapped |-> FALSE, line |-> 166],
     [op |-> "click", loc |-> "xpath=html/body/div[2]/div[4]/main/div/div[2]/div/button[4]", arg |-> "", timeout |-> 5000, wrapped |-> FALSE, line |-> 166],
     [op |-> "settle", loc |-> "", arg |-> "", timeout |-> 3000, wrapped |-> FALSE, line |-> 173],
     [op |-> "click", loc |-> "xpath=html/body/div[2]/nav/div[2]/div/div[2]/div[2]/button", arg |-> "", timeout |-> 5000, wrapped |-> FALSE, line |-> 173],
     [op |-> "expect", loc |-> "text=Maintenance", arg |-> "", timeout |-> 2000, wrapped |-> FALSE, line |-> 178],
     [op |-> "expect", loc |-> "text=Vehicles", arg |-> "", timeout |-> 2000, wrapped |-> FALSE, line |-> 179],
     [op |-> "expect", loc |-> "text=Categories", arg |-> "", timeout |-> 2000, wrapped |-> FALSE, line |-> 180],
     [op |-> "expect", loc |-> "text=Settings", arg |-> "", timeout |-> 2000, wrapped |-> FALSE, line |-> 181],
     [op |-> "expect", loc |-> "text=Contact your administrator for account access", arg |-> "", timeout |-> 30000, wrapped |-> FALSE, line |-> 182],
     [op |-> "sleep", loc |-> "", arg |-> "", timeout |-> 5000, wrapped |-> FALSE, line |-> 183] >>

Steps_TC010 ==
  << [op |-> "settle", loc |-> "", arg |-> "", timeout |-> 3000, wrapped |-> FALSE, line |-> 53],
     [op |-> "click", loc |-> "xpath=html/body/div[2]/nav/div[2]/div/div[2]/div[2]/button", arg |-> "", timeout |-> 5000, wrapped |-> FALSE, line |-> 53],
     [op |-> "settle", loc |-> "", arg |-> "", timeout |-> 3000, wrapped |-> FALSE, line |-> 60],
     [op |-> "fill", loc |-> "xpath=html/body/div[2]/div[2]/div[3]/div/form/div/input", arg |-> "admin@mpdee.co.uk", timeout |-> DefaultTimeout, wrapped |-> FALSE, line |-> 60],
     [op |-> "settle", loc |-> "", arg |-> "", timeout |-> 3000, wrapped |-> FALSE, line |-> 66],
     [op |-> "fill", loc |-> "xpath=html/body/div[2]/div[2]/div[3]/div/form/div[2]/input", arg |-> "Q-0ww9qe?", timeout |-> DefaultTimeout, wrapped |-> FALSE, line |-> 66],
     [op |-> "settle", loc |-> "", arg |-> "", timeout |-> 3000, wrapped |-> FALSE, line |-> 72],
     [op |-> "click", loc |-> "xpath=html/body/div[2]/div[2]/div[3]/div/form/button", arg |-> "", timeout |-> 5000, wrapped |-> FALSE, line |-> 72],
     [op |-> "settle", loc |-> "", arg |-> "", timeout |-> 3000, wrapped |-> FALSE, line |-> 79],
     [op |-> "click", loc |-> "xpath=html/body/div[2]/div[3]/div/button", arg |-> "", timeout |-> 5000, wrapped |-> FALSE, line |-> 79],
     [op |-> "settle", loc |-> "", arg |-> "", timeout |-> 3000, wrapped |-> FALSE, line |-> 86],
     [op |-> "click", loc |-> "xpath=html/body/div[2]/div[2]", arg |-> "", timeout |-> 5000, wrapped |-> FALSE, line |-> 86],
     [op |-> "settle", loc |-> "", arg |-> "", timeout |-> 3000, wrapped |-> FALSE, line |-> 93],
     [op |-> "click", loc |-> "xpath=html/body/div[2]/nav/div[2]/div/div/div/a[3]", arg |-> "", timeout |-> 5000, wrapped |-> FALSE, line |-> 93],
     [op |-> "settle", loc |-> "", arg |-> "", timeout |-> 3000, wrapped |-> FALSE, line |-> 100],
     [op |-> "fill", loc |-> "xpath=html/body/div[2]/div[2]/div[3]/div/form/div/input", arg |-> "admin@mpdee.co.uk", timeout |-> DefaultTimeout, wrapped |-> FALSE, line |-> 100],
     [op |-> "settle", loc |-> "", arg |-> "", timeout |-> 3000, wrapped |-> FALSE, line |-> 106],
     [op |-> "fill", loc |-> "xpath=html/body/div[2]/div[2]/div[3]/div/form/div[2]/input", arg |-> "Q-0ww9qe?", timeout |-> DefaultTimeout, wrapped |-> FALSE, line |-> 106],
     [op |-> "settle", loc |-> "", arg |-> "", timeout |-> 3000, wrapped |-> FALSE, line |-> 112],
     [op |-> "click", loc |-> "xpath=html/body/div[2]/div[2]/div[3]/div/form/button", arg |-> "", timeout |-> 5000, wrapped |-> FALSE, line |-> 112],
     [op |-> "settle", loc |-> "", arg |-> "", timeout |-> 3000, wrapped |-> FALSE, line |-> 119],
     [op |-> "click", loc |-> "xpath=html/body/div[2]/div[3]/div[2]/div/div[2]/a", arg |-> "", timeout |-> 5000, wrapped |-> FALSE, line |-> 119],
     [op |-> "settle", loc |-> "", arg |-> "", timeout |-> 3000, wrapped |-> FALSE, line |-> 126],
     [op |-> "click", loc |-> "xpath=html/body/div[2]/nav/div[2]/div/div/div/a[3]", arg |-> "", timeout |-> 5000, wrapped |-> FALSE, line |-> 126],
     [op |-> "settle", loc |-> "", arg |-> "", timeout |-> 3000, wrapped |-> FALSE, line |-> 133],
     [op |-> "click", loc |-> "xpath=html/body/div[2]/div[4]/main/div/div/div/a/button", arg |-> "", timeout |-> 5000, wrapped |-> FALSE, line |-> 133],
     [op |-> "settle", loc |-> "", arg |-> "", timeout |-> 3000, wrapped |-> FALSE, line |-> 140],
     [op |-> "click", loc |-> "xpath=html/body/div[2]/div[4]/main/div/div[2]/div[2]/div[2]/div/button", arg |-> "", timeout |-> 5000, wrapped |-> FALSE, line |-> 140],
     [op |-> "settle", loc |-> "", arg |-> "", timeout |-> 3000, wrapped |-> FALSE, line |-> 147],
     [op |-> "click", loc |-> "xpath=html/body/div[4]/div/div/div[2]", arg |-> "", timeout |-> 5000, wrapped |-> FALSE, line |-> 147],
     [op |-> "settle", loc |-> "", arg |-> "", timeout |-> 3000, wrapped |-> FALSE, line |-> 154],
     [op |-> "click", loc |-> "xpath=html/body/div[2]/div[4]/main/div/div[2]/div[2]/div[2]/div[2]/input", arg |-> "", timeout |-> 5000, wrapped |-> FALSE, line |-> 154],
     [op |-> "expect", loc |-> "text=Vehicle Inspection Submission Successful", arg |-> "Test case failed: The vehicle inspection form submission, compliance report generation, or PDF export did not complete successfully as per the test plan.", timeout |-> 1000, wrapped |-> TRUE, line |-> 160],
     [op |-> "sleep", loc |-> "", arg |-> "", timeout |-> 5000, wrapped |-> FALSE, line |-> 163] >>

Steps_TC011 ==
  << [op |-> "settle", loc |-> "", arg |-> "", timeout |-> 3000, wrapped |-> FALSE, line |-> 53],
     [op |-> "click", loc |-> "xpath=html/body/div[2]/nav/div[2]/div/div[2]/div[2]/button", arg |-> "", timeout |-> 5000, wrapped |-> FALSE, line |-> 53],
     [op |-> "settle", loc |-> "", arg |-> "", timeout |-> 3000, wrapped |-> FALSE, line |-> 60],
     [op |-> "fill", loc |-> "xpath=html/body/div[2]/div[2]/div[3]/div/form/div/input", arg |-> "admin@mpdee.co.uk", timeout |-> DefaultTimeout, wrapped |-> FALSE, line |-> 60],
     [op |-> "settle", loc |-> "", arg |-> "", timeout |-> 3000, wrapped |-> FALSE, line |-> 66],
     [op |-> "fill", loc |-> "xpath=html/body/div[2]/div[2]/div[3]/div/form/div[2]/input", arg |-> "Q-0ww9qe?", timeout |-> DefaultTimeout, wrapped |-> FALSE, line |-> 66],
     [op |-> "settle", loc |-> "", arg |-> "", timeout |-> 3000, wrapped |-> FALSE, line |-> 72],
     [op |-> "click", loc |-> "xpath=html/body/div[2]/div[2]/div[3]/div/form/button", arg |-> "", timeout |-> 5000, wrapped |-> FALSE, line |-> 72],
     [op |-> "settle", loc |-> "", arg |-> "", timeout |-> 3000, wrapped |-> FALSE, line |-> 79],
     [op |-> "click", loc |-> "xpath=html/body/div[2]/nav/div[2]/div/div/div/a[4]", arg |-> "", timeout |-> 5000, wrapped |-> FALSE, line |-> 79],
     [op |-> "settle", loc |-> "", arg |-> "", timeout |-> 3000, wrapped |-> FALSE, line |-> 86],
     [op |-> "fill", loc |-> "xpath=html/body/div[2]/div[2]/div[3]/div/form/div/input", arg |-> "admin@mpdee.co.uk", timeout |-> DefaultTimeout, wrapped |-> FALSE, line |-> 86],
     [op |-> "settle", loc |-> "", arg |-> "", timeout |-> 3000, wrapped |-> FALSE, line |-> 92],
     [op |-> "fill", loc |-> "xpath=html/body/div[2]/div[2]/div[3]/div/form/div[2]/input", arg |-> "Q-0ww9qe?", timeout |-> DefaultTimeout, wrapped |-> FALSE, line |-> 92],
     [op |-> "settle", loc |-> "", arg |-> "", timeout |-> 3000, wrapped |-> FALSE, line |-> 98],
     [op |-> "click", loc |-> "xpath=html/body/div[2]/div[2]/div[3]/div/form/button", arg |-> "", timeout |-> 5000, wrapped |-> FALSE, line |-> 98],
     [op |-> "settle", loc |-> "", arg |-> "", timeout |-> 3000, wrapped |-> FALSE, line |-> 105],
     [op |-> "click", loc |-> "xpath=html/body/div[2]/nav/div[2]/div/div/div/a[4]", arg |-> "", timeout |-> 5000, wrapped |-> FALSE, line |-> 105],
     [op |-> "settle", loc |-> "", arg |-> "", timeout |-> 3000, wrapped |-> FALSE, line |-> 112],
     [op |-> "click", loc |-> "xpath=html/body/div[2]/div[4]/main/div/div/div/div[2]/a/button", arg |-> "", timeout |-> 5000, wrapped |-> FALSE, line |-> 112],
     [op |-> "settle", loc |-> "", arg |-> "", timeout |-> 3000, wrapped |-> FALSE, line |-> 119],
     [op |-> "fill", loc |-> "xpath=html/body/div[2]/div[2]/div[3]/div/form/div/input", arg |-> "admin@mpdee.co.uk", timeout |-> DefaultTimeout, wrapped |-> FALSE, line |-> 119],
     [op |-> "settle", loc |-> "", arg |-> "", timeout |-> 3000, wrapped |-> FALSE, line |-> 125],
     [op |-> "fill", loc |-> "xpath=html/body/div[2]/div[2]/div[3]/div/form/div[2]/input", arg |-> "Q-0ww9qe?", timeout |-> DefaultTimeout, wrapped |-> FALSE, line |-> 125],
     [op |-> "settle", loc |-> "", arg |-> "", timeout |-> 3000, wrapped |-> FALSE, line |-> 131],
     [op |-> "click", loc |-> "xpath=html/body/div[2]/div[2]/div[3]/div/form/button", arg |-> "", timeout |-> 5000, wrapped |-> FALSE, line |-> 131],
     [op |-> "settle", loc |-> "", arg |-> "", timeout |-> 3000, wrapped |-> FALSE, line |-> 138],
     [op |-> "click", loc |-> "xpath=html/body/div[2]/nav/div[2]/div/div/div/a[4]", arg |-> "", timeout |-> 5000, wrapped |-> FALSE, line |-> 138],
     [op |-> "settle", loc |-> "", arg |-> "", timeout |-> 3000, wrapped |-> FALSE, line |-> 145],
     [op |-> "click", loc |-> "xpath=html/body/div[2]/div[4]/main/div/div/div/div[2]/a/button", arg |-> "", timeout |-> 5000, wrapped |-> FALSE, line |-> 145],
     [op |-> "settle", loc |-> "", arg |-> "", timeout |-> 3000, wrapped |-> FALSE, line |-> 152],
     [op |-> "click", loc |-> "xpath=html/body/div[2]/div[4]/main/div/div/div/button", arg |-> "", timeout |-> 5000, wrapped |-> FALSE, line |-> 152],
     [op |-> "settle", loc |-> "", arg |-> "", timeout |-> 3000, wrapped |-> FALSE, line |-> 159],
     [op |-> "fill", loc |-> "xpath=html/body/div[5]/form/div[2]/div/input", arg |-> "Test RAMS Document for Digital Signature", timeout |-> DefaultTimeout, wrapped |-> FALSE, line |-> 159],
     [op |-> "settle", loc |-> "", arg |-> "", timeout |-> 3000, wrapped |-> FALSE, line |-> 165],
     [op |-> "fill", loc |-> "xpath=html/body/div[5]/form/div[2]/div[2]/textarea", arg |-> "This is a test RAMS document to verify digital signature, visitor acknowledgments, PDF export, and email distribution features.", timeout |-> DefaultTimeout, wrapped |-> FALSE, line |-> 165],
     [op |-> "settle", loc |-> "", arg |-> "", timeout |-> 3000, wrapped |-> FALSE, line |-> 171],
     [op |-> "click", loc |-> "xpath=html/body/div[5]/form/div[2]/div[3]/div/button", arg |-> "", timeout |-> 5000, wrapped |-> FALSE, line |-> 171],
     [op |-> "settle", loc |-> "", arg |-> "", timeout |-> 3000, wrapped |-> FALSE, line |-> 178],
     [op |-> "click", loc |-> "xpath=html/body/div[5]/form/div[2]/div[3]/div/button", arg |-> "", timeout |-> 5000, wrapped |-> FALSE, line |-> 178],
     [op |-> "settle", loc |-> "", arg |-> "", timeout |-> 3000, wrapped |-> FALSE, line |-> 185],
     [op |-> "click", loc |-> "xpath=html/body/div[5]", arg |-> "", timeout |-> 5000, wrapped |-> FALSE, line |-> 185],
     [op |-> "settle", loc |-> "", arg |-> "", timeout |-> 3000, wrapped |-> FALSE, line |-> 191],
     [op |-> "click", loc |-> "xpath=html/body/div[5]/form/div[3]/button", arg |-> "", timeout |-> 5000, wrapped |-> FALSE, line |-> 191],
     [op |-> "expect", loc |-> "text=Digital Signature Verified Successfully", arg |-> "Test case failed: The risk assessment method statements support for digital signature capture, visitor acknowledgments, PDF export, and email distribution could not be verified as the test plan execution failed.", timeout |-> 1000, wrapped |-> TRUE, line |-> 197],
     [op |-> "sleep", loc |-> "", arg |-> "", timeout |-> 5000, wrapped |-> FALSE, line |-> 200] >>

Steps_TC014 ==
  << [op |-> "settle", loc |-> "", arg |-> "", timeout |-> 3000, wrapped |-> FALSE, line |-> 53],
     [op |-> "click", loc |-> "xpath=html/body/div[2]/nav/div[2]/div/div/div/a", arg |-> "", timeout |-> 5000, wrapped |-> FALSE, line |-> 53],
     [op |-> "settle", loc |-> "", arg |-> "", timeout |-> 3000, wrapped |-> FALSE, line |-> 60],
     [op |-> "fill", loc |-> "xpath=html/body/div[2]/div[2]/div[3]/div/form/div/input", arg |-> "admin@mpdee.co.uk", timeout |-> DefaultTimeout, wrapped |-> FALSE, line |-> 60],
     [op |-> "settle", loc |-> "", arg |-> "", timeout |-> 3000, wrapped |-> FALSE, line |-> 66],
     [op |-> "fill", loc |-> "xpath=html/body/div[2]/div[2]/div[3]/div/form/div[2]/input", arg |-> "Q-0ww9qe?", timeout |-> DefaultTimeout, wrapped |-> FALSE, line |-> 66],
     [op |-> "settle", loc |-> "", arg |-> "", timeout |-> 3000, wrapped |-> FALSE, line |-> 72],
     [op |-> "click", loc |-> "xpath=html/body/div[2]/div[2]/div[3]/div/form/button", arg |-> "", timeout |-> 5000, wrapped |-> FALSE, line |-> 72],
     [op |-> "settle", loc |-> "", arg |-> "", timeout |-> 3000, wrapped |-> FALSE, line |-> 79],
     [op |-> "click", loc |-> "xpath=html/body/div[2]/div[4]/main/div/div[2]/div/a[6]", arg |-> "", timeout |-> 5000, wrapped |-> FALSE, line |-> 79],
     [op |-> "settle", loc |-> "", arg |-> "", timeout |-> 3000, wrapped |-> FALSE, line |-> 86],
     [op |-> "click", loc |-> "xpath=html/body/div[2]/div[4]/main/div/div[2]/div[2]/div[3]/div/div/div/div/div/div/div/div[2]/button", arg |-> "", timeout |-> 5000, wrapped |-> FALSE, line |-> 86],
     [op |-> "settle", loc |-> "", arg |-> "", timeout |-> 3000, wrapped |-> FALSE, line |-> 93],
     [op |-> "fill", loc |-> "xpath=html/body/div[5]/div[3]/textarea", arg |-> "Test comment for migration verification.", timeout |-> DefaultTimeout, wrapped |-> FALSE, line |-> 93],
     [op |-> "settle", loc |-> "", arg |-> "", timeout |-> 3000, wrapped |-> FALSE, line |-> 100],
     [op |-> "click", loc |-> "xpath=html/body/div[5]/div[3]/div/button", arg |-> "", timeout |-> 5000, wrapped |-> FALSE, line |-> 100],
     [op |-> "expect", loc |-> "text=Migration Completed Successfully", arg |-> "Test case failed: Database migrations did not complete successfully, legacy data may not be backfilled correctly, or data integrity is compromised as per the test plan.", timeout |-> 1000, wrapped |-> TRUE, line |-> 106],
     [op |-> "sleep", loc |-> "", arg |-> "", timeout |-> 5000, wrapped |-> FALSE, line |-> 109] >>

Steps_TC016 ==
  << [op |-> "settle", loc |-> "", arg |-> "", timeout |-> 3000, wrapped |-> FALSE, line |-> 53],
     [op |-> "click", loc |-> "xpath=html/body/div[2]/nav/div[2]/div/div/div/a", arg |-> "", timeout |-> 5000, wrapped |-> FALSE, line |-> 53],
     [op |-> "settle", loc |-> "", arg |-> "", timeout |-> 3000, wrapped |-> FALSE, line |-> 60],
     [op |-> "fill", loc |-> "xpath=html/body/div[2]/div[2]/div[3]/div/form/div/input", arg |-> "admin@mpdee.co.uk", timeout |-> DefaultTimeout, wrapped |-> FALSE, line |-> 60],
     [op |-> "settle", loc |-> "", arg |-> "", timeout |-> 3000, wrapped |-> FALSE, line |-> 66],
     [op |-> "fill", loc |-> "xpath=html/body/div[2]/div[2]/div[3]/div/form/div[2]/input", arg |-> "Q-0ww9qe?", timeout |-> DefaultTimeout, wrapped |-> FALSE, line |-> 66],
     [op |-> "settle", loc |-> "", arg |-> "", timeout |-> 3000, wrapped |-> FALSE, line |-> 72],
     [op |-> "click", loc |-> "xpath=html/body/div[2]/div[2]/div[3]/div/form/button", arg |-> "", timeout |-> 5000, wrapped |-> FALSE, line |-> 72],
     [op |-> "settle", loc |-> "", arg |-> "", timeout |-> 3000, wrapped |-> FALSE, line |-> 79],
     [op |-> "click", loc |-> "xpath=html/body/div[2]/nav/div[2]/div/div/div/a[7]", arg |-> "", timeout |-> 5000, wrapped |-> FALSE, line |-> 79],
     [op |-> "settle", loc |-> "", arg |-> "", timeout |-> 3000, wrapped |-> FALSE, line |-> 86],
     [op |-> "click", loc |-> "xpath=html/body/div[2]/div[4]/main/div/div[2]/div[2]/div[3]/div/div/div/div/div/div/div/div[2]/button", arg |-> "", timeout |-> 5000, wrapped |-> FALSE, line |-> 86],
     [op |-> "settle", loc |-> "", arg |-> "", timeout |-> 3000, wrapped |-> FALSE, line |-> 93],
     [op |-> "fill", loc |-> "xpath=html/body/div[5]/div[3]/textarea", arg |-> "Too short", timeout |-> DefaultTimeout, wrapped |-> FALSE, line |-> 93],
     [op |-> "settle", loc |-> "", arg |-> "", timeout |-> 3000, wrapped |-> FALSE, line |-> 100],
     [op |-> "fill", loc |-> "xpath=html/body/div[5]/div[3]/textarea", arg |-> "Valid text", timeout |-> DefaultTimeout, wrapped |-> FALSE, line |-> 100],
     [op |-> "settle", loc |-> "", arg |-> "", timeout |-> 3000, wrapped |-> FALSE, line |-> 106],
     [op |-> "click", loc |-> "xpath=html/body/div[5]/div[3]/div/button", arg |-> "", timeout |-> 5000, wrapped |-> FALSE, line |-> 106],
     [op |-> "settle", loc |-> "", arg |-> "", timeout |-> 3000, wrapped |-> FALSE, line |-> 113],
     [op |-> "fill", loc |-> "xpath=html/body/div[5]/div[3]/textarea", arg |-> "This is a longer comment with more than 10 characters.", timeout |-> DefaultTimeout, wrapped |-> FALSE, line |-> 113],
     [op |-> "settle", loc |-> "", arg |-> "", timeout |-> 3000, wrapped |-> FALSE, line |-> 119],
     [op |-> "click", loc |-> "xpath=html/body/div[5]/div[3]/div/button", arg |-> "", timeout |-> 5000, wrapped |-> FALSE, line |-> 119],
     [op |-> "settle", loc |-> "", arg |-> "", timeout |-> 3000, wrapped |-> FALSE, line |-> 126],
     [op |-> "click", loc |-> "xpath=html/body/div[5]/div[3]/div/button", arg |-> "", timeout |-> 5000, wrapped |-> FALSE, line |-> 126],
     [op |-> "expect", loc |-> "text=Electrical system requires inspection and repair.", arg |-> "", timeout |-> 30000, wrapped |-> FALSE, line |-> 131],
     [op |-> "expect", loc |-> "text=Big crack in windscreen", arg |-> "", timeout |-> 30000, wrapped |-> FALSE, line |-> 132],
     [op |-> "expect", loc |-> "text=Windscreen before MOT unless unsafe", arg |-> "", timeout |-> 30000, wrapped |-> FALSE, line |-> 133],
     [op |-> "expect", loc |-> "text=Do windscreen before MOT", arg |-> "", timeout |-> 30000, wrapped |-> FALSE, line |-> 134],
     [op |-> "expect", loc |-> "text=No comments yet. Add the first note.", arg |-> "", timeout |-> 30000, wrapped |-> FALSE, line |-> 135],
     [op |-> "sleep", loc |-> "", arg |-> "", timeout |-> 5000, wrapped |-> FALSE, line |-> 136] >>

Steps_TC019 ==
  << [op |-> "settle", loc |-> "", arg |-> "", timeout |-> 3000, wrapped |-> FALSE, line |-> 53],
     [op |-> "click", loc |-> "xpath=html/body/div[2]/nav/div[2]/div/div[2]/div[2]/button", arg |-> "", timeout |-> 5000, wrapped |-> FALSE, line |-> 53],
     [op |-> "settle", loc |-> "", arg |-> "", timeout |-> 3000, wrapped |-> FALSE, line |-> 60],
     [op |-> "fill", loc |-> "xpath=html/body/div[2]/div[2]/div[3]/div/form/div/input", arg |-> "admin@mpdee.co.uk", timeout |-> DefaultTimeout, wrapped |-> FALSE, line |-> 60],
     [op |-> "settle", loc |-> "", arg |-> "", timeout |-> 3000, wrapped |-> FALSE, line |-> 66],
     [op |-> "fill", loc |-> "xpath=html/body/div[2]/div[2]/div[3]/div/form/div[2]/input", arg |-> "Q-0ww9qe?", timeout |-> DefaultTimeout, wrapped |-> FALSE, line |-> 66],
     [op |-> "settle", loc |-> "", arg |-> "", timeout |-> 3000, wrapped |-> FALSE, line |-> 72],
     [op |-> "click", loc |-> "xpath=html/body/div[2]/div[2]/div[3]/div/form/button", arg |-> "", timeout |-> 5000, wrapped |-> FALSE, line |-> 72],
     [op |-> "goto", loc |-> "", arg |-> "http://localhost:3000/api/invalid-endpoint", timeout |-> 10000, wrapped |-> FALSE, line |-> 76],
     [op |-> "sleep", loc |-> "", arg |-> "", timeout |-> 3000, wrapped |-> FALSE, line |-> 77],
     [op |-> "goto", loc |-> "", arg |-> "http://localhost:3000/logs", timeout |-> 10000, wrapped |-> FALSE, line |-> 81],
     [op |-> "sleep", loc |-> "", arg |-> "", timeout |-> 3000, wrapped |-> FALSE, line |-> 82],
     [op |-> "goto", loc |-> "", arg |-> "http://localhost:3000/dashboard", timeout |-> 10000, wrapped |-> FALSE, line |-> 86],
     [op |-> "sleep", loc |-> "", arg |-> "", timeout |-> 3000, wrapped |-> FALSE, line |-> 87],
     [op |-> "settle", loc |-> "", arg |-> "", timeout |-> 3000, wrapped |-> FALSE, line |-> 94],
     [op |-> "fill", loc |-> "xpath=html/body/div[2]/div[2]/div[3]/div/form/div/input", arg |-> "admin@mpdee.co.uk", timeout |-> DefaultTimeout, wrapped |-> FALSE, line |-> 94],
     [op |-> "settle", loc |-> "", arg |-> "", timeout |-> 3000, wrapped |-> FALSE, line |-> 100],
     [op |-> "fill", loc |-> "xpath=html/body/div[2]/div[2]/div[3]/div/form/div[2]/input", arg |-> "Q-0ww9qe?", timeout |-> DefaultTimeout, wrapped |-> FALSE, line |-> 100],
     [op |-> "settle", loc |-> "", arg |-> "", timeout |-> 3000, wrapped |-> FALSE, line |-> 106],
     [op |-> "click", loc |-> "xpath=html/body/div[2]/div[2]/div[3]/div/form/button", arg |-> "", timeout |-> 5000, wrapped |-> FALSE, line |-> 106],
     [op |-> "settle", loc |-> "", arg |-> "", timeout |-> 3000, wrapped |-> FALSE, line |-> 113],
     [op |-> "click", loc |-> "xpath=html/body/div[2]/div[3]/div[2]/div[3]/div[2]/a", arg |-> "", timeout |-> 5000, wrapped |-> FALSE, line |-> 113],
     [op |-> "settle", loc |-> "", arg |-> "", timeout |-> 3000, wrapped |-> FALSE, line |-> 120],
     [op |-> "click", loc |-> "xpath=html/body/div[2]/div[4]/main/div/div[3]/div[2]/div/div/div/div[2]/button[2]", arg |-> "", timeout |-> 5000, wrapped |-> FALSE, line |-> 120],
     [op |-> "settle", loc |-> "", arg |-> "", timeout |-> 3000, wrapped |-> FALSE, line |-> 127],
     [op |-> "click", loc |-> "xpath=html/body/div[2]/div[4]/main/div/div[3]/div[2]/div/div[2]/div/div[2]/div/input", arg |-> "", timeout |-> 5000, wrapped |-> FALSE, line |-> 127],
     [op |-> "settle", loc |-> "", arg |-> "", timeout |-> 3000, wrapped |-> FALSE, line |-> 134],
     [op |-> "click", loc |-> "xpath=html/body/div[2]/nav/div[2]/div/div/div/a", arg |-> "", timeout |-> 5000, wrapped |-> FALSE, line |-> 134],
     [op |-> "expect", loc |-> "text=No Errors Detected in Logs", arg |-> "Test case failed: The test plan execution has failed because the intentional application error was not recorded in centralized logs, dashboard monitoring UI did not reflect the error event, or the daily email summary did not include the logged error.", timeout |-> 1000, wrapped |-> TRUE, line |-> 140],
     [op |-> "sleep", loc |-> "", arg |-> "", timeout |-> 5000, wrapped |-> FALSE, line |-> 143] >>
(* As Script, but with TC006 not filling in the password of its first      *)
(* login.                                                                  *)
NotTheFirstPassword(step) == ~(step.op = "fill" /\ step.line = 66)

Script_PasswordNotFilled(t) ==
  CASE t = "TC001" -> Steps_TC001
    [] t = "TC002" -> Steps_TC002
    [] t = "TC003" -> Steps_TC003
    [] t = "TC006" -> SelectSeq(Steps_TC006, NotTheFirstPassword)
    [] t = "TC010" -> Steps_TC010
    [] t = "TC011" -> Steps_TC011
    [] t = "TC014" -> Steps_TC014
    [] t = "TC016" -> Steps_TC016
    [] t = "TC019" -> Steps_TC019

(* As Script, but with TC001 never submitting its last login.              *)
NotTheLastSignIn(step) == ~(step.op = "click" /\ step.line = 124)

Script_LastLoginNotSubmitted(t) ==
  CASE t = "TC001" -> SelectSeq(Steps_TC001, NotTheLastSignIn)
    [] t = "TC002" -> Steps_TC002
    [] t = "TC003" -> Steps_TC003
    [] t = "TC006" -> Steps_TC006
    [] t = "TC010" -> Steps_TC010
    [] t = "TC011" -> Steps_TC011
    [] t = "TC014" -> Steps_TC014
    [] t = "TC016" -> Steps_TC016
    [] t = "TC019" -> Steps_TC019

(* As Script, but with TC016 never clicking Add Note itself.               *)
NotAnAddNote(step) == step.line \notin {106, 119, 126}

Script_NoOwnNote(t) ==
  CASE t = "TC001" -> Steps_TC001
    [] t = "TC002" -> Steps_TC002
    [] t = "TC003" -> Steps_TC003
    [] t = "TC006" -> Steps_TC006
    [] t = "TC010" -> Steps_TC010
    [] t = "TC011" -> Steps_TC011
    [] t = "TC014" -> Steps_TC014
    [] t = "TC016" -> SelectSeq(Steps_TC016, NotAnAddNote)
    [] t = "TC019" -> Steps_TC019

(* As Script, but with TC016 never replacing the nine-character comment.   *)
NotTheRefill(step) == ~(step.op = "fill" /\ step.arg = "Valid text")

Script_NoRefill(t) ==
  CASE t = "TC001" -> Steps_TC001
    [] t = "TC002" -> Steps_TC002
    [] t = "TC003" -> Steps_TC003
    [] t = "TC006" -> Steps_TC006
    [] t = "TC010" -> Steps_TC010
    [] t = "TC011" -> Steps_TC011
    [] t = "TC014" -> Steps_TC014
    [] t = "TC016" -> SelectSeq(Steps_TC016, NotTheRefill)
    [] t = "TC019" -> Steps_TC019

(* The step list of each script.                                           *)
Script(t) ==
  CASE t = "TC001" -> Steps_TC001
    [] t = "TC002" -> Steps_TC002
    [] t = "TC003" -> Steps_TC003
    [] t = "TC006" -> Steps_TC006
    [] t = "TC010" -> Steps_TC010
    [] t = "TC011" -> Steps_TC011
    [] t = "TC014" -> Steps_TC014
    [] t = "TC016" -> Steps_TC016
    [] t = "TC019" -> Steps_TC019

(***************************************************************************)
(* Exceptions.  playwright.async_api.TimeoutError is a subclass of         *)
(* playwright.async_api.Error; AssertionError is the builtin.              *)
(***************************************************************************)
(* As IsInstance, but with TimeoutError not derived from Error.             *)
IsInstance_FlatTimeout(type, cls) ==
  CASE cls = "Exception"      -> TRUE
    [] OTHER                  -> type = cls

IsInstance(type, cls) ==
  CASE cls = "Exception"      -> TRUE
    [] cls = "Error"          -> type \in {"Error", "TimeoutError"}
    [] OTHER                  -> type = cls

(* The message the library gives an exception it raises itself.            *)
LibraryMessage(type) ==
  CASE type = "TimeoutError"   -> "Timeout exceeded"
    [] type = "AssertionError" -> "Locator expected to be visible"
    [] OTHER                   -> "Target page, context or browser has been closed"

(* An exception the library raises in the call made at position at.         *)
LibraryExc(type, at) == [type |-> type, msg |-> LibraryMessage(type), at |-> at]

(* What an awaited call of each kind can answer.                           *)
Results(op) ==
  CASE op = "settle" -> {"ok", "Error"}
    [] op = "sleep"  -> {"ok"}
    [] op = "expect" -> {"ok", "AssertionError", "Error"}
    [] op = "wait"   -> {"ok", "TimeoutError", "Error"}
    [] op = "acquire" -> {"ok", "Error"}
    [] op = "release" -> {"ok", "Error"}
    [] OTHER         -> {"ok", "TimeoutError", "Error"}

Call(at, idx, res) == [at |-> at, idx |-> idx, res |-> res]

(* As LoadStateWait, but without the handler.                              *)
LoadStateWait_Propagate(res, at) ==
  IF res = "ok" THEN <<>> ELSE <<LibraryExc(res, at)>>

(***************************************************************************)
(* try/except around a best-effort load-state wait:                        *)
(*     try: await X.wait_for_load_state(...)                               *)
(*     except async_api.Error: pass                                        *)
(* The exception chain that leaves the statement.                          *)
(***************************************************************************)
LoadStateWait(res, at) ==
  IF res = "ok" \/ IsInstance(res, "Error") THEN <<>> ELSE <<LibraryExc(res, at)>>

(* As StepRaises, but the handler of a wrapped expectation is a bare pass. *)
StepRaises_SwallowWrapped(step, res) ==
  IF res = "ok" \/ (step.op = "expect" /\ step.wrapped /\ res = "AssertionError")
  THEN <<>>
  ELSE <<LibraryExc(res, "step")>>

(* As StepRaises, but a timed-out click or fill is skipped.                *)
StepRaises_SkipTimedOut(step, res) ==
  IF res = "ok" \/ (step.op \in {"click", "fill"} /\ res = "TimeoutError")
  THEN <<>>
  ELSE IF step.op = "expect" /\ step.wrapped /\ res = "AssertionError"
       THEN <<LibraryExc(res, "step"),
              [type |-> "AssertionError", msg |-> step.arg, at |-> "step"]>>
       ELSE <<LibraryExc(res, "step")>>

(* As StepRaises, but a bare expectation that fails is only noted.         *)
StepRaises_BareContinue(step, res) ==
  IF res = "ok" \/ (step.op = "expect" /\ ~step.wrapped /\ res = "AssertionError")
  THEN <<>>
  ELSE IF step.op = "expect" /\ step.wrapped /\ res = "AssertionError"
       THEN <<LibraryExc(res, "step"),
              [type |-> "AssertionError", msg |-> step.arg, at |-> "step"]>>
       ELSE <<LibraryExc(res, "step")>>

(***************************************************************************)
(* One statement of the step list.  A wrapped expectation is               *)
(*     try: await expect(...).to_be_visible(...)                           *)
(*     except AssertionError: raise AssertionError("<fixed text>")         *)
(* and the raise inside the handler chains the caught exception; a bare    *)
(* expectation and every other step let the library's exception through.   *)
(***************************************************************************)
StepRaises(step, res) ==
  IF res = "ok" THEN <<>>
  ELSE IF step.op = "expect" /\ step.wrapped /\ IsInstance(res, "AssertionError")
       THEN <<LibraryExc(res, "step"),
              [type |-> "AssertionError", msg |-> step.arg, at |-> "step"]>>
       ELSE <<LibraryExc(res, "step")>>

(* A statement of the finally block that raises while exc is in flight.    *)
RaiseInFinally(inflight, res, at) == Append(inflight, LibraryExc(res, at))

(***************************************************************************)
(* The page and the application under test.  The scripts name the elements *)
(* they act on in their comments; fill replaces the value of an input.     *)
(* What the application does with a click (sign in, sign out, Add Note)    *)
(* and when it shows the dashboard-access text and the comment placeholder *)
(* is not part of the scripts: it is modelled from the specification.      *)
(* Nothing else is assumed about the application.                          *)
(***************************************************************************)
EntryUrl == "http://localhost:3000/fleet"

EmailField == "xpath=html/body/div[2]/div[2]/div[3]/div/form/div/input"

PasswordField == "xpath=html/body/div[2]/div[2]/div[3]/div/form/div[2]/input"

SignInButton == "xpath=html/body/div[2]/div[2]/div[3]/div/form/button"

SignOutButton == "xpath=html/body/div[2]/nav/div[2]/div/div[2]/div[2]/button"

CommentTextarea == "xpath=html/body/div[5]/div[3]/textarea"

AddNoteButton == "xpath=html/body/div[5]/div[3]/div/button"

(* page.wait_for_timeout(3000): the delay in front of every click and fill. *)
SettleDelay == 3000

(* Every element some script fills.                                        *)
InputLocs ==
  { "xpath=html/body/div[2]/div[2]/div[3]/div/form/div/input",
    "xpath=html/body/div[2]/div[2]/div[3]/div/form/div[2]/input",
    "xpath=html/body/div[5]/div[2]/div[4]/input",
    "xpath=html/body/div[5]/div[2]/div[5]/textarea",
    "xpath=html/body/div[5]/div[3]/textarea",
    "xpath=html/body/div[5]/form/div[2]/div/input",
    "xpath=html/body/div[5]/form/div[2]/div[2]/textarea" }

(* The texts the scripts fill in, character by character.                  *)
Chars(s) ==
  CASE s = "" -> <<>>
    [] s = "12345" ->
         << "1", "2", "3", "4", "5" >>
    [] s = "Electrical system requires inspection and repair." ->
         << "E", "l", "e", "c", "t", "r", "i", "c", "a", "l", " ", "s", "y", "s", "t", "e", "m", " ", "r", "e", "q", "u", "i", "r", "e", "s", " ", "i", "n", "s", "p", "e", "c", "t", "i", "o", "n", " ", "a", "n", "d", " ", "r", "e", "p", "a", "i", "r", "." >>
    [] s = "Q-0ww9qe?" ->
         << "Q", "-", "0", "w", "w", "9", "q", "e", "?" >>
    [] s = "Test RAMS Document for Digital Signature" ->
         << "T", "e", "s", "t", " ", "R", "A", "M", "S", " ", "D", "o", "c", "u", "m", "e", "n", "t", " ", "f", "o", "r", " ", "D", "i", "g", "i", "t", "a", "l", " ", "S", "i", "g", "n", "a", "t", "u", "r", "e" >>
    [] s = "Test comment for migration verification." ->
         << "T", "e", "s", "t", " ", "c", "o", "m", "m", "e", "n", "t", " ", "f", "o", "r", " ", "m", "i", "g", "r", "a", "t", "i", "o", "n", " ", "v", "e", "r", "i", "f", "i", "c", "a", "t", "i", "o", "n", "." >>
    [] s = "This is a longer comment with more than 10 characters." ->
         << "T", "h", "i", "s", " ", "i", "s", " ", "a", " ", "l", "o", "n", "g", "e", "r", " ", "c", "o", "m", "m", "e", "n", "t", " ", "w", "i", "t", "h", " ", "m", "o", "r", "e", " ", "t", "h", "a", "n", " ", "1", "0", " ", "c", "h", "a", "r", "a", "c", "t", "e", "r", "s", "." >>
    [] s = "This is a test RAMS document to verify digital signature, visitor acknowledgments, PDF export, and email distribution features." ->
         << "T", "h", "i", "s", " ", "i", "s", " ", "a", " ", "t", "e", "s", "t", " ", "R", "A", "M", "S", " ", "d", "o", "c", "u", "m", "e", "n", "t", " ", "t", "o", " ", "v", "e", "r", "i", "f", "y", " ", "d", "i", "g", "i", "t", "a", "l", " ", "s", "i", "g", "n", "a", "t", "u", "r", "e", ",", " ", "v", "i", "s", "i", "t", "o", "r", " ", "a", "c", "k", "n", "o", "w", "l", "e", "d", "g", "m", "e", "n", "t", "s", ",", " ", "P", "D", "F", " ", "e", "x", "p", "o", "r", "t", ",", " ", "a", "n", "d", " ", "e", "m", "a", "i", "l", " ", "d", "i", "s", "t", "r", "i", "b", "u", "t", "i", "o", "n", " ", "f", "e", "a", "t", "u", "r", "e", "s", "." >>
    [] s = "This is a test comment." ->
         << "T", "h", "i", "s", " ", "i", "s", " ", "a", " ", "t", "e", "s", "t", " ", "c", "o", "m", "m", "e", "n", "t", "." >>
    [] s = "Too short" ->
         << "T", "o", "o", " ", "s", "h", "o", "r", "t" >>
    [] s = "Valid text" ->
         << "V", "a", "l", "i", "d", " ", "t", "e", "x", "t" >>
    [] s = "admin@mpdee.co.uk" ->
         << "a", "d", "m", "i", "n", "@", "m", "p", "d", "e", "e", ".", "c", "o", ".", "u", "k" >>

(* Shortest comment the application accepts.                               *)
MinCommentLen == 10

(* The expected texts the specification says when to show.                 *)
DashboardAccessText == "text=Employee Dashboard Access Granted"

NoCommentsText == "text=No comments yet. Add the first note."

SpecifiedTexts == {DashboardAccessText, NoCommentsText}

BlankUi ==
  [url |-> "", value |-> [l \in InputLocs |-> ""], user |-> "", creds |-> <<>>]

(* A freshly reset application holds no comment.                           *)
FreshApps == { [comments |-> <<>>] }

(* What a statement that succeeded did to the page: fill replaces the      *)
(* input's value, goto changes the location, a click on Sign In submits    *)
(* the credentials the form holds.                                         *)
Typed(step, u) ==
  CASE step.op = "fill" -> [u EXCEPT !.value[step.loc] = step.arg]
    [] step.op = "goto" -> [u EXCEPT !.url = step.arg]
    [] step.op = "click" /\ step.loc = SignInButton ->
         [u EXCEPT !.creds = Append(@, <<u.value[EmailField], u.value[PasswordField]>>)]
    [] OTHER -> u

(* The application signs in the account whose credentials are submitted    *)
(* and signs it out on Sign Out.                                           *)
SignedIn(step, u) ==
  CASE step.op = "click" /\ step.loc = SignInButton -> [u EXCEPT !.user = u.value[EmailField]]
    [] step.op = "click" /\ step.loc = SignOutButton -> [u EXCEPT !.user = ""]
    [] OTHER -> u

(* The page after a statement that succeeded.                              *)
UiAfter(step, u) == SignedIn(step, Typed(step, u))

(* Add Note stores the comment textarea's content; a correctly functioning *)
(* application only when it has MinCommentLen characters or more.          *)
Accepts(e, text) == e = "arbitrary" \/ Len(Chars(text)) >= MinCommentLen

(* The application after a statement that succeeded.                       *)
AppAfter(step, u, a, e) ==
  CASE step.op = "click" /\ step.loc = AddNoteButton /\ Accepts(e, u.value[CommentTextarea]) ->
         [a EXCEPT !.comments = Append(@, u.value[CommentTextarea])]
    [] OTHER -> a

(* When a correctly functioning application shows a specified text: the   *)
(* dashboard-access text to a signed-in user, the placeholder while the    *)
(* task has no comments.                                                   *)
Visible(loc, u, a) ==
  CASE loc = DashboardAccessText -> u.user # ""
    [] loc = NoCommentsText      -> a.comments = <<>>

(***************************************************************************)
(* How the environment answers.  "arbitrary": any answer the call can      *)
(* give.  "correct": a correctly functioning application -- every call     *)
(* succeeds and an expectation on a specified text holds exactly when the  *)
(* text is shown; whether any other expected text is shown is not known,   *)
(* and the best-effort load-state waits still depend on timing.  "steady": *)
(* as "correct", with the load-state waits succeeding too.                 *)
(***************************************************************************)
CallAnswers(op) ==
  IF env = "arbitrary" \/ (env = "correct" /\ op = "wait") THEN Results(op) ELSE {"ok"}

StepAnswers(step) ==
  IF env = "arbitrary" THEN Results(step.op)
  ELSE IF step.op # "expect" THEN {"ok"}
  ELSE IF step.loc \notin SpecifiedTexts THEN {"ok", "AssertionError"}
  ELSE IF Visible(step.loc, ui, app) THEN {"ok"} ELSE {"AssertionError"}

(* Every process numbers the objects it creates in order of creation; a    *)
(* local that names none holds 0.                                          *)
NoHandles == [pw |-> 0, browser |-> 0, context |-> 0, page |-> 0]

NextN == Cardinality({o \in objs : o.owner = pid}) + 1

NewObj(kind) == objs \cup {[owner |-> pid, n |-> NextN, kind |-> kind]}

NoProc == [pid |-> 0]

(* One interpreter process about to run one script.                        *)
InitProc ==
  /\ tc \in Scenarios
  /\ pc = "init"
  /\ ip = 1
  /\ pw = "None" /\ browser = "None" /\ context = "None"
  /\ page = "unbound"
  /\ nframes = 0 /\ fi = 0
  /\ exc = <<>>
  /\ verdict = "none"
  /\ trace = <<>>
  /\ stderr = <<>>
  /\ hnd = NoHandles
  /\ ui = BlankUi
  /\ pid = 1
  /\ objs = {}
  /\ app \in FreshApps
  /\ app0 = app

(* One script run on its own.                                              *)
Init ==
  /\ InitProc
  /\ env \in {"arbitrary", "correct"}
  /\ bg = NoProc

(* As LeaveTry, but with no finally block: run_test ends at once.          *)
LeaveTry_NoFinally(raised) ==
  /\ exc' = raised
  /\ verdict' = IF raised = <<>> THEN "Passed" ELSE "Failed"
  /\ pc' = "done"

(* As LeaveTry, but with a finally block that starts at browser.close().   *)
LeaveTry_BrowserFirst(raised) ==
  /\ exc' = raised
  /\ verdict' = IF raised = <<>> THEN "Passed" ELSE "Failed"
  /\ pc' = "fin_browser"

(* Leaving the try block: normally (raised = <<>>) or by an exception.     *)
LeaveTry(raised) ==
  /\ exc' = raised
  /\ verdict' = IF raised = <<>> THEN "Passed" ELSE "Failed"
  /\ pc' = "fin_context"

(* lines 6-10: the locals are None and the try block is entered.           *)
EnterTry ==
  /\ pc = "init"
  /\ pc' = "pw_start"
  /\ UNCHANGED <<tc, ip, pw, browser, context, page, nframes, fi, exc, verdict, trace, stderr>>
  /\ UNCHANGED <<hnd, ui, app0, pid, bg, env, app, objs>>

(* line 12: pw = await async_api.async_playwright().start()                *)
StartPlaywright ==
  /\ pc = "pw_start"
  /\ \E res \in CallAnswers("acquire") :
       /\ trace' = Append(trace, Call("pw_start", IF res = "ok" THEN NextN ELSE 0, res))
       /\ IF res = "ok"
          THEN /\ pw' = "obj" /\ pc' = "launch"
               /\ objs' = NewObj("pw")
               /\ hnd' = [hnd EXCEPT !.pw = NextN]
               /\ UNCHANGED <<exc, verdict>>
          ELSE /\ LeaveTry(<<LibraryExc(res, "pw_start")>>)
               /\ UNCHANGED <<pw, objs, hnd>>
  /\ UNCHANGED <<tc, ip, browser, context, page, nframes, fi, stderr>>
  /\ UNCHANGED <<ui, app0, pid, bg, env, app>>

(* lines 15-23: browser = await pw.chromium.launch(...)                    *)
LaunchBrowser ==
  /\ pc = "launch"
  /\ \E res \in CallAnswers("acquire") :
       /\ trace' = Append(trace, Call("launch", IF res = "ok" THEN NextN ELSE 0, res))
       /\ IF res = "ok"
          THEN /\ browser' = "obj" /\ pc' = "new_context"
               /\ objs' = NewObj("browser")
               /\ hnd' = [hnd EXCEPT !.browser = NextN]
               /\ UNCHANGED <<exc, verdict>>
          ELSE /\ LeaveTry(<<LibraryExc(res, "launch")>>)
               /\ UNCHANGED <<browser, objs, hnd>>
  /\ UNCHANGED <<tc, ip, pw, context, page, nframes, fi, stderr>>
  /\ UNCHANGED <<ui, app0, pid, bg, env, app>>

(* lines 26-27: context = await browser.new_context(); set_default_timeout *)
NewContext ==
  /\ pc = "new_context"
  /\ \E res \in CallAnswers("acquire") :
       /\ trace' = Append(trace, Call("new_context", IF res = "ok" THEN NextN ELSE 0, res))
       /\ IF res = "ok"
          THEN /\ context' = "obj" /\ pc' = "new_page"
               /\ objs' = NewObj("context")
               /\ hnd' = [hnd EXCEPT !.context = NextN]
               /\ UNCHANGED <<exc, verdict>>
          ELSE /\ LeaveTry(<<LibraryExc(res, "new_context")>>)
               /\ UNCHANGED <<context, objs, hnd>>
  /\ UNCHANGED <<tc, ip, pw, browser, page, nframes, fi, stderr>>
  /\ UNCHANGED <<ui, app0, pid, bg, env, app>>

(* As NewPage, but opening a second page when the first was created.       *)
NewPage_Again ==
  /\ pc = "new_page"
  /\ \E res \in CallAnswers("acquire") :
       /\ trace' = Append(trace, Call("new_page", IF res = "ok" THEN NextN ELSE 0, res))
       /\ IF res = "ok"
          THEN /\ page' = "obj"
               /\ pc' = IF page = "obj" THEN "goto" ELSE "new_page"
               /\ objs' = NewObj("page")
               /\ hnd' = [hnd EXCEPT !.page = NextN]
               /\ UNCHANGED <<exc, verdict>>
          ELSE /\ LeaveTry(<<LibraryExc(res, "new_page")>>)
               /\ UNCHANGED <<page, objs, hnd>>
  /\ UNCHANGED <<tc, ip, pw, browser, context, nframes, fi, stderr>>
  /\ UNCHANGED <<ui, app0, pid, bg, env, app>>

(* line 30: page = await context.new_page()                                *)
NewPage ==
  /\ pc = "new_page"
  /\ \E res \in CallAnswers("acquire") :
       /\ trace' = Append(trace, Call("new_page", IF res = "ok" THEN NextN ELSE 0, res))
       /\ IF res = "ok"
          THEN /\ page' = "obj" /\ pc' = "goto"
               /\ objs' = NewObj("page")
               /\ hnd' = [hnd EXCEPT !.page = NextN]
               /\ UNCHANGED <<exc, verdict>>
          ELSE /\ LeaveTry(<<LibraryExc(res, "new_page")>>)
               /\ UNCHANGED <<page, objs, hnd>>
  /\ UNCHANGED <<tc, ip, pw, browser, context, nframes, fi, stderr>>
  /\ UNCHANGED <<ui, app0, pid, bg, env, app>>

(* As Goto, but carrying on to the load-state wait when the navigation     *)
(* fails.                                                                  *)
Goto_IgnoreFailure ==
  /\ pc = "goto"
  /\ \E res \in CallAnswers("goto") :
       /\ trace' = Append(trace, Call("goto", 0, res))
       /\ pc' = "main_wait"
       /\ ui' = IF res = "ok" THEN [ui EXCEPT !.url = EntryUrl] ELSE ui
  /\ UNCHANGED <<tc, ip, pw, browser, context, page, nframes, fi, exc, verdict, stderr>>
  /\ UNCHANGED <<hnd, app0, pid, bg, env, app, objs>>

(* line 33: await page.goto(entry URL, wait_until="commit", timeout=10000) *)
Goto ==
  /\ pc = "goto"
  /\ \E res \in CallAnswers("goto") :
       /\ trace' = Append(trace, Call("goto", 0, res))
       /\ IF res = "ok"
          THEN /\ pc' = "main_wait"
               /\ ui' = [ui EXCEPT !.url = EntryUrl]
               /\ UNCHANGED <<exc, verdict>>
          ELSE /\ LeaveTry(<<LibraryExc(res, "goto")>>)
               /\ UNCHANGED ui
  /\ UNCHANGED <<tc, ip, pw, browser, context, page, nframes, fi, stderr>>
  /\ UNCHANGED <<hnd, app0, pid, bg, env, app, objs>>

(* lines 36-39: best-effort wait for the main page's load state            *)
MainWait ==
  /\ pc = "main_wait"
  /\ \E res \in CallAnswers("wait") :
       /\ trace' = Append(trace, Call("main_wait", 0, res))
       /\ IF LoadStateWait(res, "main_wait") = <<>>
          THEN /\ pc' = "frames"
               /\ UNCHANGED <<exc, verdict>>
          ELSE LeaveTry(LoadStateWait(res, "main_wait"))
  /\ UNCHANGED <<tc, ip, pw, browser, context, page, nframes, fi, stderr>>
  /\ UNCHANGED <<hnd, ui, app0, pid, bg, env, app, objs>>

(* line 42: for frame in page.frames -- the list is read once; the main    *)
(* frame is always in it.                                                  *)
FramesIter ==
  /\ pc = "frames"
  /\ \E n \in 1..MaxFrames : nframes' = n
  /\ fi' = 0
  /\ pc' = "frame_wait"
  /\ UNCHANGED <<tc, ip, pw, browser, context, page, exc, verdict, trace, stderr>>
  /\ UNCHANGED <<hnd, ui, app0, pid, bg, env, app, objs>>

(* As FrameWait, but never moving on to the next frame.                    *)
FrameWait_SameFrameAgain ==
  /\ pc = "frame_wait"
  /\ fi < nframes
  /\ UNCHANGED <<tc, pc, ip, pw, browser, context, page, nframes, fi, exc, verdict,
                 trace, stderr>>
  /\ UNCHANGED <<hnd, ui, app0, pid, bg, env, app, objs>>

(* As FrameWait, but with a wait that failed ending the loop.              *)
FrameWait_BreakOnFailure ==
  /\ pc = "frame_wait"
  /\ fi < nframes
  /\ \E res \in CallAnswers("wait") :
       /\ trace' = Append(trace, Call("frame_wait", fi + 1, res))
       /\ fi' = fi + 1
       /\ pc' = IF fi + 1 = nframes \/ res # "ok" THEN "steps" ELSE "frame_wait"
  /\ UNCHANGED <<tc, ip, pw, browser, context, page, nframes, exc, verdict, stderr>>
  /\ UNCHANGED <<hnd, ui, app0, pid, bg, env, app, objs>>

(* lines 43-46: best-effort wait for one frame; after the last frame the   *)
(* loop ends and the step list starts.                                     *)
FrameWait ==
  /\ pc = "frame_wait"
  /\ fi < nframes
  /\ \E res \in CallAnswers("wait") :
       /\ trace' = Append(trace, Call("frame_wait", fi + 1, res))
       /\ IF LoadStateWait(res, "frame_wait") = <<>>
          THEN /\ fi' = fi + 1
               /\ pc' = IF fi + 1 = nframes THEN "steps" ELSE "frame_wait"
               /\ UNCHANGED <<exc, verdict>>
          ELSE /\ LeaveTry(LoadStateWait(res, "frame_wait"))
               /\ UNCHANGED fi
  /\ UNCHANGED <<tc, ip, pw, browser, context, page, nframes, stderr>>
  /\ UNCHANGED <<hnd, ui, app0, pid, bg, env, app, objs>>

(* As NextIp, but the statement is run again.                              *)
NextIp_Retry(i) == i

(* As NextIp, but passing over a settle delay that comes next.             *)
NextIp_SkipSettle(i) ==
  IF i + 1 <= Len(Script(tc)) /\ Script(tc)[i + 1].op = "settle" THEN i + 2 ELSE i + 1

(* Where a statement of the step list that did not raise hands control.    *)
NextIp(i) == i + 1

(* lines 48 to the end of the try block: one awaited statement.            *)
ExecStep ==
  /\ pc = "steps"
  /\ ip <= Len(Script(tc))
  /\ LET step == Script(tc)[ip] IN
     \E res \in StepAnswers(step) :
       /\ trace' = Append(trace, Call("step", ip, res))
       /\ IF res = "ok"
          THEN /\ ui' = UiAfter(step, ui)
               /\ app' = AppAfter(step, ui, app, env)
          ELSE UNCHANGED <<ui, app>>
       /\ IF StepRaises(step, res) = <<>>
          THEN /\ ip' = NextIp(ip)
               /\ IF NextIp(ip) > Len(Script(tc))
                  THEN LeaveTry(<<>>)
                  ELSE UNCHANGED <<pc, exc, verdict>>
          ELSE /\ LeaveTry(StepRaises(step, res))
               /\ UNCHANGED ip
  /\ UNCHANGED <<tc, pw, browser, context, page, nframes, fi, stderr>>
  /\ UNCHANGED <<hnd, app0, pid, bg, env, objs>>

(***************************************************************************)
(* finally block.  Each statement is  if X: await X.close()  with no       *)
(* handler: a call that raises leaves run_test at once.                    *)
(***************************************************************************)
(* The object the local tested by a statement of the finally block names.  *)
HandleAt(at) ==
  CASE at = "fin_context" -> hnd.context
    [] at = "fin_browser" -> hnd.browser
    [] at = "fin_pw"      -> hnd.pw

Release(at, local, next) ==
  /\ pc = at
  /\ IF local = "None"
     THEN /\ pc' = next
          /\ UNCHANGED <<exc, trace>>
     ELSE \E res \in CallAnswers("release") :
            /\ trace' = Append(trace, Call(at, HandleAt(at), res))
            /\ IF res = "ok"
               THEN /\ pc' = next
                    /\ UNCHANGED exc
               ELSE /\ pc' = "done"
                    /\ exc' = RaiseInFinally(exc, res, at)
  /\ UNCHANGED <<tc, ip, pw, browser, context, page, nframes, fi, verdict, stderr>>
  /\ UNCHANGED <<hnd, ui, app0, pid, bg, env, app, objs>>

(* if context: await context.close()                                       *)
CloseContext == Release("fin_context", context, "fin_browser")

(* if browser: await browser.close()                                       *)
CloseBrowser == Release("fin_browser", browser, "fin_pw")

(* if pw: await pw.stop()                                                  *)
StopPlaywright == Release("fin_pw", pw, "done")

(* asyncio.run(run_test()): an exception that left run_test ends the       *)
(* interpreter, which prints the chain of exceptions on stderr.            *)
AsyncioRun ==
  /\ pc = "done"
  /\ pc' = "exited"
  /\ stderr' = exc
  /\ UNCHANGED <<tc, ip, pw, browser, context, page, nframes, fi, exc, verdict, trace>>
  /\ UNCHANGED <<hnd, ui, app0, pid, bg, env, app, objs>>

Next ==
  \/ EnterTry
  \/ StartPlaywright
  \/ LaunchBrowser
  \/ NewContext
  \/ NewPage
  \/ Goto
  \/ MainWait
  \/ FramesIter
  \/ FrameWait
  \/ ExecStep
  \/ CloseContext
  \/ CloseBrowser
  \/ StopPlaywright
  \/ AsyncioRun

Spec == Init /\ [][Next]_vars

(***************************************************************************)
(* Vocabulary of the properties.                                           *)
(***************************************************************************)
TryLabels ==
  {"pw_start", "launch", "new_context", "new_page", "goto", "main_wait",
   "frames", "frame_wait", "steps"}

FinallyLabels == {"fin_context", "fin_browser", "fin_pw"}

EndLabels == {"done", "exited"}

WaitLabels == {"main_wait", "frame_wait"}

Resources == {"pw", "browser", "context"}

AcquireLabel(r) ==
  CASE r = "pw" -> "pw_start" [] r = "browser" -> "launch" [] r = "context" -> "new_context"

ReleaseLabel(r) ==
  CASE r = "pw" -> "fin_pw" [] r = "browser" -> "fin_browser" [] r = "context" -> "fin_context"

Acquired(r) == \E i \in DOMAIN trace : trace[i].at = AcquireLabel(r) /\ trace[i].res = "ok"

(* The release calls made on r, and those of them that completed.          *)
ReleaseCalls(r) == {i \in DOMAIN trace : trace[i].at = ReleaseLabel(r)}
Releases(r) == {i \in ReleaseCalls(r) : trace[i].res = "ok"}

(* The call trace[i] is a statement of the step list of the given kinds.   *)
IsStep(i, ops) == trace[i].at = "step" /\ Script(tc)[trace[i].idx].op \in ops

AssertionFailedAt(i) == IsStep(i, {"expect"}) /\ trace[i].res = "AssertionError"

AssertionFailed == \E i \in DOMAIN trace : AssertionFailedAt(i)

TeardownRaised == \E i \in DOMAIN trace : trace[i].at \in FinallyLabels /\ trace[i].res # "ok"

LoadWaitTimedOutAt(i) == trace[i].at \in WaitLabels /\ trace[i].res # "ok"

InteractiveTimedOutAt(i) == IsStep(i, {"click", "fill"}) /\ trace[i].res = "TimeoutError"

(* The pre-written diagnostics of a scenario: the texts of the raise       *)
(* statements of its wrapped expectations.                                 *)
FixedDiagnostics(t) ==
  {Script(t)[k].arg : k \in {j \in DOMAIN Script(t) : Script(t)[j].op = "expect" /\ Script(t)[j].wrapped}}

(* The exception the caller of run_test receives.                          *)
Surfaced == exc[Len(exc)]

(***************************************************************************)
(* C1 -- On every exit path of run_test every acquired session resource    *)
(* (driver, browser, context) has been released exactly once when run_test *)
(* ends, no resource is released twice and none that was not acquired is   *)
(* released.  Violated: a release call that raises leaves run_test with    *)
(* the remaining resources unreleased (see C2).                            *)
(***************************************************************************)
C1_ReleasedExactlyOnce ==
  /\ \A r \in Resources : Cardinality(ReleaseCalls(r)) <= 1
  /\ \A r \in Resources : ~Acquired(r) => ReleaseCalls(r) = {}
  /\ pc \in EndLabels => \A r \in Resources : Acquired(r) => Cardinality(Releases(r)) = 1

(***************************************************************************)
(* C2 -- An error raised by context.close, browser.close or pw.stop is     *)
(* swallowed: it is not propagated out of run_test, the remaining release  *)
(* calls still run, and after a failed assertion the assertion's           *)
(* diagnostic is still what the caller receives.  Violated: the finally    *)
(* block has no handler.                                                   *)
(***************************************************************************)
C2_TeardownErrorsSwallowed ==
  /\ \A i \in DOMAIN exc : exc[i].at \notin FinallyLabels
  /\ pc \in EndLabels => \A r \in Resources : Acquired(r) => ReleaseCalls(r) # {}
  /\ (pc \in EndLabels /\ AssertionFailed) => (exc # <<>> /\ Surfaced.at = "step")

(***************************************************************************)
(* C3 -- Whenever an expectation fails, the verdict is Failed and no later *)
(* statement of the scenario runs (no further expectation, no trailing     *)
(* sleep): every call made after it is a release call of the finally      *)
(* block.                                                                  *)
(***************************************************************************)
C3_AssertionFailureStops ==
  \A i \in DOMAIN trace :
    AssertionFailedAt(i) =>
      /\ verdict = "Failed"
      /\ pc \notin TryLabels
      /\ \A j \in DOMAIN trace : j > i => trace[j].at \in FinallyLabels

(* An expectation of TC006 other than its last failed, then teardown ran.  *)
C3_Witness ==
  /\ tc = "TC006"
  /\ pc = "done"
  /\ \E i \in DOMAIN trace :
       /\ AssertionFailedAt(i)
       /\ trace[i].idx < Len(Script(tc)) - 1
       /\ i < Len(trace)

(***************************************************************************)
(* C4 -- A best-effort load-state wait (main page or frame) that times out *)
(* does not abort the scenario: right after it the try block is still      *)
(* running with no exception in flight, the call that follows it is the    *)
(* next frame's wait or the first statement of the first interactive step, *)
(* and once the try block has been left that first step has been run.      *)
(***************************************************************************)
C4_LoadWaitTimeoutContinues ==
  \A i \in DOMAIN trace :
    LoadWaitTimedOutAt(i) =>
      /\ i = Len(trace) => (verdict = "none" /\ exc = <<>> /\ pc \in {"frames", "frame_wait", "steps"})
      /\ i < Len(trace) => trace[i + 1].at \in {"frame_wait", "step"}
      /\ pc \notin TryLabels => \E j \in DOMAIN trace : j > i /\ trace[j].at = "step" /\ trace[j].idx = 1

(* Every load-state wait timed out and the first click was still made.     *)
C4_Witness ==
  /\ \E i \in DOMAIN trace : trace[i].at = "main_wait" /\ trace[i].res = "TimeoutError"
  /\ \A i \in DOMAIN trace : trace[i].at = "frame_wait" => trace[i].res = "TimeoutError"
  /\ \E i \in DOMAIN trace : trace[i].at = "frame_wait" /\ trace[i].idx = 2
  /\ \E j \in DOMAIN trace : IsStep(j, {"click"}) /\ trace[j].idx = 2 /\ trace[j].res = "ok"

(***************************************************************************)
(* C5 -- Lifecycle Init -> Running -> {Passed, Failed} -> Torn Down.       *)
(* Init is run_test before its try block, Running the try block, Passed    *)
(* and Failed the finally block entered without or with an exception, Torn *)
(* Down the end of run_test.  Torn Down is terminal, it is entered only    *)
(* from Passed or Failed, and Running is never re-entered.                 *)
(***************************************************************************)
Phase ==
  CASE pc = "init"          -> "Init"
    [] pc \in TryLabels     -> "Running"
    [] pc \in FinallyLabels -> verdict
    [] pc \in EndLabels     -> "TornDown"

LifecycleEdges ==
  {<<"Init", "Running">>, <<"Running", "Passed">>, <<"Running", "Failed">>,
   <<"Passed", "TornDown">>, <<"Failed", "TornDown">>}

C5_Lifecycle ==
  [][ /\ (Phase' # Phase => <<Phase, Phase'>> \in LifecycleEdges)
      /\ (Phase = "TornDown" => Phase' = "TornDown")
      /\ (Phase' = "TornDown" /\ Phase # "TornDown" => verdict \in {"Passed", "Failed"})
      /\ (Phase' = "Running" => Phase \in {"Init", "Running"}) ]_vars

(* A scenario torn down after a Passed verdict.                            *)
C5_Witness == Phase = "TornDown" /\ verdict = "Passed" /\ pc = "exited"

(***************************************************************************)
(* C6 as stated -- when a click or fill exceeds its timeout only that step *)
(* is aborted (the statements after it still run) and the teardown is      *)
(* executed afterwards.  Violated: the TimeoutError leaves the try block.  *)
(***************************************************************************)
C6_OnlyThatStepAborted ==
  \A i \in DOMAIN trace :
    (InteractiveTimedOutAt(i) /\ pc \notin TryLabels) =>
      /\ \A k \in (trace[i].idx + 1)..Len(Script(tc)) :
           \E j \in DOMAIN trace : j > i /\ trace[j].at = "step" /\ trace[j].idx = k
      /\ pc \in EndLabels => ReleaseCalls("context") # {}

(***************************************************************************)
(* C6 amended -- when a click or fill exceeds its timeout, that step and   *)
(* every later statement of the scenario are abandoned (verdict Failed),   *)
(* and the finally block is still entered: every call after the timed-out  *)
(* step is a release call and context.close() is the first of them.        *)
(***************************************************************************)
C6_TimeoutAbortsScenarioThenTeardown ==
  \A i \in DOMAIN trace :
    InteractiveTimedOutAt(i) =>
      /\ verdict = "Failed"
      /\ pc \notin TryLabels
      /\ \A j \in DOMAIN trace : j > i => trace[j].at \in FinallyLabels
      /\ pc # "fin_context" => (i < Len(trace) /\ trace[i + 1].at = "fin_context")

(* A fill timed out and the whole teardown ran.                            *)
C6_Witness ==
  /\ pc = "done"
  /\ \E i \in DOMAIN trace : InteractiveTimedOutAt(i) /\ IsStep(i, {"fill"})
  /\ \A r \in Resources : Releases(r) # {}

(***************************************************************************)
(* C7 -- the statements of a scenario run strictly in listed order, one at *)
(* a time, each at most once: the k-th statement call made is statement k, *)
(* a statement is started only after all earlier ones returned normally,   *)
(* and a statement that failed is never run again.                         *)
(***************************************************************************)
IsStepCall(c) == c.at = "step"

StepCalls == SelectSeq(trace, IsStepCall)

C7_StepsInOrderOnce ==
  LET calls == StepCalls
  IN  /\ \A k \in DOMAIN calls : calls[k].idx = k
      /\ \A k \in DOMAIN calls : k < Len(calls) => calls[k].res = "ok"
      /\ Len(calls) <= Len(Script(tc))
      /\ pc = "steps" => ip = Len(calls) + 1

(* The longest scenario ran all of its statements.                         *)
C7_Witness ==
  /\ tc = "TC011"
  /\ pc = "done"
  /\ Len(StepCalls) = Len(Script(tc))

(***************************************************************************)
(* C8 -- every failing expectation, in every scenario (TC006 and TC016     *)
(* included), gives a Failed verdict whose exception carries the           *)
(* scenario's fixed, pre-written diagnostic text.  Violated: the           *)
(* expectations of TC006 and TC016 are not wrapped, so the library's own   *)
(* message is what leaves the try block.                                   *)
(***************************************************************************)
C8_FixedDiagnosticCarried ==
  (AssertionFailed /\ pc \in FinallyLabels) =>
    /\ verdict = "Failed"
    /\ exc # <<>>
    /\ Surfaced.msg \in FixedDiagnostics(tc)

(***************************************************************************)
(* C9 -- a scenario emits at most one diagnostic: at most one expectation  *)
(* fails per run, no expectation is evaluated after a failed one, a Failed *)
(* verdict stems from exactly one failing statement, and a Passed verdict  *)
(* from none.                                                              *)
(***************************************************************************)
FailedAssertions == {i \in DOMAIN trace : AssertionFailedAt(i)}

(* Calls of the try block whose exception left their statement.            *)
BodyFailures ==
  {i \in DOMAIN trace : trace[i].at \notin (FinallyLabels \cup WaitLabels) /\ trace[i].res # "ok"}

C9_AtMostOneDiagnostic ==
  LET failed == FailedAssertions
      body   == BodyFailures
  IN  /\ Cardinality(failed) <= 1
      /\ \A i \in failed : \A j \in DOMAIN trace : j > i => ~IsStep(j, {"expect"})
      /\ verdict = "Failed" => Cardinality(body) = 1
      /\ verdict = "Passed" => (body = {} /\ failed = {})
      /\ (verdict = "Passed" /\ pc \in FinallyLabels) => exc = <<>>

(* TC016: four expectations held, the fifth failed.                        *)
C9_Witness ==
  /\ tc = "TC016"
  /\ pc = "done"
  /\ \E i \in FailedAssertions : trace[i].idx = Len(Script(tc)) - 1
  /\ Cardinality({j \in DOMAIN trace : IsStep(j, {"expect"})}) = 5

(***************************************************************************)
(* C10 as stated -- a best-effort load-state wait that times out is logged *)
(* before execution continues: once the next call has been made a record   *)
(* of the skipped wait exists.  Violated: the handler is a bare pass.      *)
(***************************************************************************)
C10_TimedOutWaitLogged ==
  \A i \in DOMAIN trace :
    (LoadWaitTimedOutAt(i) /\ i < Len(trace)) =>
      \E k \in DOMAIN stderr : stderr[k].at = trace[i].at

(***************************************************************************)
(* C10 amended -- a best-effort load-state wait that times out is skipped  *)
(* silently: no record of it is ever produced (nothing is printed before   *)
(* the interpreter ends, and neither the exception in flight nor the       *)
(* printed chain ever names a load-state wait), and execution continues    *)
(* with the next step: the next frame's wait, or statement 1 after the     *)
(* last frame.                                                             *)
(***************************************************************************)
C10_TimedOutWaitSkippedSilently ==
  /\ pc # "exited" => stderr = <<>>
  /\ \A k \in DOMAIN stderr : stderr[k].at \notin WaitLabels
  /\ \A k \in DOMAIN exc : exc[k].at \notin WaitLabels
  /\ \A i \in DOMAIN trace :
       (LoadWaitTimedOutAt(i) /\ i < Len(trace)) =>
          trace[i + 1] \in
            {Call("frame_wait", IF trace[i].at = "main_wait" THEN 1 ELSE trace[i].idx + 1, r) :
                r \in Results("wait")}
            \cup {Call("step", 1, r) : r \in Results("settle")}

(* A frame's wait timed out, a later step failed, and only that later      *)
(* failure was printed.                                                    *)
C10_Witness ==
  /\ pc = "exited"
  /\ \E i \in DOMAIN trace : trace[i].at = "frame_wait" /\ trace[i].res = "TimeoutError"
  /\ stderr # <<>>
  /\ \A k \in DOMAIN stderr : stderr[k].at = "step"


(***************************************************************************)
(* One script run on its own, every call it awaits eventually returning or *)
(* raising: a step that is possible is eventually taken.                   *)
(***************************************************************************)
SpecLive == Init /\ [][Next]_vars /\ WF_vars(Next)

(***************************************************************************)
(* Two scripts run by an outer harness.  Each script is a program of its   *)
(* own (asyncio.run at its last line), so two of them are two interpreter  *)
(* processes with their own locals; the harness may run one after the      *)
(* other or let the operating system interleave them.  The process in the  *)
(* foreground is the one whose locals the variables hold.  Both talk to    *)
(* the one application, which here functions correctly.                    *)
(***************************************************************************)
PairScenarios == {"TC002", "TC014", "TC016"}

Self ==
  [pid |-> pid, tc |-> tc, pc |-> pc, ip |-> ip, pw |-> pw, browser |-> browser,
   context |-> context, page |-> page, nframes |-> nframes, fi |-> fi, exc |-> exc,
   verdict |-> verdict, trace |-> trace, stderr |-> stderr, hnd |-> hnd, ui |-> ui]

NewProc(p, t) ==
  [pid |-> p, tc |-> t, pc |-> "init", ip |-> 1, pw |-> "None", browser |-> "None",
   context |-> "None", page |-> "unbound", nframes |-> 0, fi |-> 0, exc |-> <<>>,
   verdict |-> "none", trace |-> <<>>, stderr |-> <<>>, hnd |-> NoHandles, ui |-> BlankUi]

(* The operating system takes the foreground process off the processor and *)
(* resumes the other one.                                                  *)
Switch ==
  /\ bg.pid # 0
  /\ bg' = Self
  /\ pid' = bg.pid /\ tc' = bg.tc /\ pc' = bg.pc /\ ip' = bg.ip
  /\ pw' = bg.pw /\ browser' = bg.browser /\ context' = bg.context /\ page' = bg.page
  /\ nframes' = bg.nframes /\ fi' = bg.fi /\ exc' = bg.exc /\ verdict' = bg.verdict
  /\ trace' = bg.trace /\ stderr' = bg.stderr /\ hnd' = bg.hnd /\ ui' = bg.ui
  /\ UNCHANGED <<app0, env, app, objs>>

InitPair ==
  /\ InitProc
  /\ tc \in PairScenarios
  /\ env = "steady"
  /\ \E t \in PairScenarios : bg = NewProc(2, t)

NextPair == Next \/ Switch

SpecPair == InitPair /\ [][NextPair]_vars

(***************************************************************************)
(* One script run twice by the harness, the application being reset        *)
(* before each run.  When the first process has exited the harness keeps   *)
(* its verdict, resets the application and starts a second process on the  *)
(* same script.                                                            *)
(***************************************************************************)
Rerun ==
  /\ pc = "exited"
  /\ bg = NoProc
  /\ bg' = [pid |-> pid, tc |-> tc, verdict |-> verdict]
  /\ pid' = 2
  /\ pc' = "init" /\ ip' = 1
  /\ pw' = "None" /\ browser' = "None" /\ context' = "None" /\ page' = "unbound"
  /\ nframes' = 0 /\ fi' = 0
  /\ exc' = <<>> /\ verdict' = "none"
  /\ trace' = <<>> /\ stderr' = <<>>
  /\ hnd' = NoHandles /\ ui' = BlankUi
  /\ objs' = {}
  /\ app' = app0
  /\ UNCHANGED <<tc, app0, env>>

NextTwice == Next \/ Rerun

SpecTwice == Init /\ [][NextTwice]_vars

(***************************************************************************)
(* C15 -- Every click and every fill is immediately preceded by the settle *)
(* delay, always of the same length: the call made just before a click or  *)
(* fill is the wait_for_timeout of the same line, it lasted SettleDelay,   *)
(* and it completed.                                                       *)
(***************************************************************************)
C15_SettleBeforeEveryClickAndFill ==
  \A k \in DOMAIN trace :
    IsStep(k, {"click", "fill"}) =>
      /\ k > 1
      /\ trace[k - 1].at = "step"
      /\ trace[k - 1].idx = trace[k].idx - 1
      /\ trace[k - 1].res = "ok"
      /\ Script(tc)[trace[k - 1].idx].op = "settle"
      /\ Script(tc)[trace[k - 1].idx].timeout = SettleDelay
      /\ Script(tc)[trace[k - 1].idx].line = Script(tc)[trace[k].idx].line

C15_Witness ==
  /\ \E k \in DOMAIN trace : IsStep(k, {"fill"}) /\ trace[k].res = "ok"
  /\ \E k \in DOMAIN trace : IsStep(k, {"click"}) /\ trace[k].res = "ok"


(***************************************************************************)
(* C18 -- The first page action after the session is acquired is the       *)
(* navigation to the fixed entry URL.  No load-state wait, click, fill or  *)
(* assertion is made before that navigation has succeeded, and if it fails *)
(* no statement of the step list runs at all.                              *)
(***************************************************************************)
PageCallLabels == {"goto", "main_wait", "frame_wait", "step"}

EntryNavigations == {j \in DOMAIN trace : trace[j].at = "goto"}

C18_EntryNavigationFirst ==
  LET navs == EntryNavigations
  IN  /\ \A k \in DOMAIN trace :
           trace[k].at \in PageCallLabels \ {"goto"} =>
             \E j \in navs : j < k /\ trace[j].res = "ok"
      /\ \A k \in DOMAIN trace :
           (trace[k].at = "new_page" /\ trace[k].res = "ok" /\ k < Len(trace)) =>
             trace[k + 1].at = "goto"
      /\ Cardinality(navs) <= 1
      /\ (\E j \in navs : trace[j].res # "ok") =>
           /\ \A k \in DOMAIN trace : trace[k].at \notin PageCallLabels \ {"goto"}
           /\ pc \notin {"main_wait", "frames", "frame_wait", "steps"}
      /\ pc \in {"main_wait", "frames", "frame_wait"} => ui.url = EntryUrl

C18_Witness ==
  /\ \E j \in EntryNavigations : trace[j].res # "ok"
  /\ pc = "exited"


(***************************************************************************)
(* C13 -- In TC016 a comment shorter than ten characters is never          *)
(* persisted: whenever the script is about to click Add Note the comment   *)
(* textarea holds at least ten characters, so with an application that     *)
(* stores the textarea's content on Add Note every stored comment has ten  *)
(* characters or more.                                                     *)
(***************************************************************************)
AboutToClick(loc) ==
  /\ pc = "steps"
  /\ ip <= Len(Script(tc))
  /\ Script(tc)[ip].op = "click"
  /\ Script(tc)[ip].loc = loc

C13_NoShortCommentPersisted ==
  tc = "TC016" =>
    /\ AboutToClick(AddNoteButton) =>
         Len(Chars(ui.value[CommentTextarea])) >= MinCommentLen
    /\ \A i \in DOMAIN app.comments : Len(Chars(app.comments[i])) >= MinCommentLen

C13_Witness ==
  /\ tc = "TC016"
  /\ env = "arbitrary"
  /\ app.comments =
       << "Valid text",
          "This is a longer comment with more than 10 characters.",
          "This is a longer comment with more than 10 characters." >>


(***************************************************************************)
(* C17 -- Two distinct credential pairs are used at login, one for the     *)
(* administrative/manager role and one for the employee role: a scenario   *)
(* that logs in as an employee submits a different email/password pair     *)
(* than a scenario that logs in as a manager or administrator.  Violated:  *)
(* every login of every script fills in the same pair, so the employee     *)
(* login of TC001 submits the pair the manager login of TC006 and the      *)
(* admin login of TC019 submit.                                            *)
(***************************************************************************)
EmployeeScenarios == {"TC001"}

ManagerScenarios == {"TC006", "TC019"}

Last(S) == CHOOSE x \in S : \A y \in S : y <= x

(* What the element loc holds when statement i of script t starts: the     *)
(* text of the last fill on it before i.                                   *)
LastFill(t, loc, i) ==
  LET fills == {j \in 1..(i - 1) : Script(t)[j].op = "fill" /\ Script(t)[j].loc = loc}
  IN  IF fills = {} THEN "" ELSE Script(t)[Last(fills)].arg

(* The clicks on loc among the statements of script t before statement i.  *)
Clicks(t, loc, i) ==
  {j \in 1..(i - 1) : Script(t)[j].op = "click" /\ Script(t)[j].loc = loc}

(* The credential pairs script t submits when run to its end.              *)
LoginPairs(t) ==
  { <<LastFill(t, EmailField, j), LastFill(t, PasswordField, j)>> :
      j \in Clicks(t, SignInButton, Len(Script(t)) + 1) }

C17_EmployeePairDiffersFromManagerPair ==
  tc \in EmployeeScenarios =>
    \A i \in DOMAIN ui.creds : \A t \in ManagerScenarios : ui.creds[i] \notin LoginPairs(t)


(***************************************************************************)
(* C16 -- Each scenario owns exactly one session: one run of run_test      *)
(* creates at most one Playwright driver, one browser, one context and one *)
(* page, and the session exists only between acquisition and teardown: no  *)
(* call on the page is made before the page is created or after the        *)
(* context has been closed.                                                *)
(***************************************************************************)
Kinds == {"pw", "browser", "context", "page"}

Created(p, kind) == {o.n : o \in {x \in objs : x.kind = kind /\ x.owner = p}}

CreationLabel(kind) ==
  CASE kind = "pw" -> "pw_start" [] kind = "browser" -> "launch"
    [] kind = "context" -> "new_context" [] kind = "page" -> "new_page"

C16_OneSessionPerRun ==
  LET calls == {k \in DOMAIN trace : trace[k].at \notin {"step", "frame_wait"}}
  IN
  /\ \A kind \in Kinds :
       /\ Cardinality(Created(pid, kind)) <= 1
       /\ Created(pid, kind) = IF hnd[kind] = 0 THEN {} ELSE {hnd[kind]}
       /\ Cardinality({k \in calls : trace[k].at = CreationLabel(kind)}) <= 1
  /\ LET opened == {j \in calls : /\ trace[j].at = "new_page"
                                  /\ trace[j].res = "ok"
                                  /\ trace[j].idx = hnd.page}
         closed == {j \in calls : trace[j].at \in FinallyLabels}
     IN  \A k \in DOMAIN trace :
           trace[k].at \in PageCallLabels =>
             /\ \E j \in opened : j < k
             /\ \A j \in closed : j > k
  /\ pc \in {"goto", "main_wait", "frames", "frame_wait", "steps"} =>
       /\ \A kind \in Kinds : hnd[kind] # 0
       /\ \A j \in calls : trace[j].at \notin FinallyLabels

C16_Witness ==
  /\ pc = "exited"
  /\ \A kind \in Kinds : Cardinality(Created(pid, kind)) = 1
  /\ \E k \in DOMAIN trace : IsStep(k, {"click"}) /\ trace[k].res = "ok"
  /\ \E k \in DOMAIN trace : trace[k].at = "fin_context" /\ trace[k].res = "ok"


(***************************************************************************)
(* C14 -- TC001 (login with valid employee credentials, navigate to the    *)
(* dashboard), run against a correctly functioning application that        *)
(* accepts the submitted credentials, reaches the verdict Pass: its last   *)
(* login is submitted and not signed out again, so the dashboard-access    *)
(* text it expects is visible when the assertion runs, nothing is raised   *)
(* and nothing is printed.                                                 *)
(***************************************************************************)
LeftTry == pc \in FinallyLabels \cup EndLabels

C14_ValidEmployeeLoginPasses ==
  (tc = "TC001" /\ env = "correct" /\ LeftTry) =>
    /\ verdict = "Passed"
    /\ exc = <<>>
    /\ ui.user # ""
    /\ \E k \in DOMAIN trace :
         /\ IsStep(k, {"expect"})
         /\ Script(tc)[trace[k].idx].loc = DashboardAccessText
         /\ trace[k].res = "ok"
    /\ pc = "exited" => stderr = <<>>

C14_Witness ==
  /\ tc = "TC001"
  /\ env = "correct"
  /\ pc = "exited"
  /\ verdict = "Passed"
  /\ Len(ui.creds) = 3


(***************************************************************************)
(* C20 -- TC016 reaches the verdict Pass against a correctly functioning   *)
(* application, one that persists a comment of ten or more characters when *)
(* Add Note is clicked and shows the placeholder 'No comments yet. Add the *)
(* first note.' only while the task has no comments: all five final        *)
(* assertions hold.  Violated: by the time the placeholder is asserted the *)
(* script has added its own comments, so the application no longer shows   *)
(* it and the fifth assertion fails.                                       *)
(***************************************************************************)
C20_CommentValidationPasses ==
  (tc = "TC016" /\ env = "correct" /\ LeftTry) =>
    /\ verdict = "Passed"
    /\ \A k \in DOMAIN trace : IsStep(k, {"expect"}) => trace[k].res = "ok"


(***************************************************************************)
(* C12 -- Running the same scenario twice, each time against an            *)
(* application in the same freshly reset state, yields the same verdict    *)
(* both times.  Violated: the verdict also depends on how each awaited     *)
(* call of the run ends (a click or fill that does not complete within its *)
(* timeout, a navigation that fails, an expected text that does not appear *)
(* in time), which the application's initial state and the step list do    *)
(* not fix.                                                                *)
(***************************************************************************)
C12_SameVerdictBothTimes ==
  (bg # NoProc /\ LeftTry) => verdict = bg.verdict


(***************************************************************************)
(* C11 -- Scenarios share no mutable state: when two scenarios run         *)
(* concurrently or one after the other, each owns its own session (driver, *)
(* browser, context, page), no scenario uses or releases another           *)
(* scenario's session, and the verdict of a scenario does not depend on    *)
(* which other scenarios ran before it or alongside it: every expectation  *)
(* on a text whose visibility depends on state is answered as it is when   *)
(* the script runs alone, and the verdict is one the script reaches alone. *)
(***************************************************************************)

(* The account signed in when statement i of script t starts.              *)
UserBefore(t, i) ==
  LET ins  == Clicks(t, SignInButton, i)
      outs == Clicks(t, SignOutButton, i)
  IN  IF ins = {} \/ (outs # {} /\ Last(outs) > Last(ins))
      THEN ""
      ELSE LastFill(t, EmailField, Last(ins))

(* What the application, started in state a0, holds when statement i of    *)
(* script t starts and no other script is running.                         *)
AppBefore(t, i, a0) ==
  LET stored  == {j \in Clicks(t, AddNoteButton, i) :
                    Accepts("correct", LastFill(t, CommentTextarea, j))}
      nth(k)  == CHOOSE j \in stored : Cardinality({x \in stored : x <= j}) = k
  IN  [comments |-> a0.comments \o
                      [k \in 1..Cardinality(stored) |-> LastFill(t, CommentTextarea, nth(k))]]

(* The expectations of script t on specified texts that a correctly        *)
(* functioning application, started in state a0, does not meet when the    *)
(* script runs alone.                                                      *)
Unmet(t, a0) ==
  {i \in DOMAIN Script(t) :
     /\ Script(t)[i].op = "expect"
     /\ Script(t)[i].loc \in SpecifiedTexts
     /\ ~Visible(Script(t)[i].loc, [BlankUi EXCEPT !.user = UserBefore(t, i)],
                 AppBefore(t, i, a0))}

(* The expectations of script t on texts the specification says nothing    *)
(* about.                                                                  *)
Unspecified(t) ==
  {i \in DOMAIN Script(t) :
     Script(t)[i].op = "expect" /\ Script(t)[i].loc \notin SpecifiedTexts}

(* The verdicts script t can reach when it runs alone.                     *)
AloneVerdicts(t, a0) ==
  IF Unmet(t, a0) # {} THEN {"Failed"}
  ELSE IF Unspecified(t) # {} THEN {"Passed", "Failed"}
  ELSE {"Passed"}

OwnsItsSession(p) ==
  /\ \A kind \in Kinds : p.hnd[kind] # 0 => p.hnd[kind] \in Created(p.pid, kind)
  /\ \A r \in Resources : \A k \in DOMAIN p.trace :
       p.trace[k].at = ReleaseLabel(r) => p.trace[k].idx \in Created(p.pid, r)

C11_ScenariosIndependent ==
  /\ OwnsItsSession(Self)
  /\ bg.pid # 0 => OwnsItsSession(bg)
  /\ \A o \in objs : o.owner \in {pid, bg.pid}
  /\ LET unmet == Unmet(tc, app0)
     IN  \A k \in DOMAIN trace :
           (IsStep(k, {"expect"}) /\ Script(tc)[trace[k].idx].loc \in SpecifiedTexts) =>
             (trace[k].res = "ok" <=> trace[k].idx \notin unmet)
  /\ LeftTry => verdict \in AloneVerdicts(tc, app0)

C11_Witness ==
  /\ tc = "TC016"
  /\ pc = "exited"
  /\ verdict = "Failed"
  /\ bg.pid # 0
  /\ bg.tc = "TC014"
  /\ bg.pc = "exited"
  /\ Len(app.comments) = 4
  /\ \E k \in DOMAIN trace :
       /\ IsStep(k, {"expect"})
       /\ Script(tc)[trace[k].idx].loc = NoCommentsText
       /\ trace[k].res = "AssertionError"


(***************************************************************************)
(* C21 -- In the frame-load loop every frame of the page receives exactly  *)
(* one load-state wait, and a wait that timed out does not skip the waits  *)
(* for the frames after it: the waits made are those for frames 1, 2, ...  *)
(* in order, the loop is left only after the wait for the last frame, and  *)
(* it is left for the step list.                                           *)
(***************************************************************************)
IsFrameWait(c) == c.at = "frame_wait"

FrameWaits == SelectSeq(trace, IsFrameWait)

LoopLabels == {"frames", "frame_wait"}

PastMainWait == \E k \in DOMAIN trace : trace[k].at = "main_wait"

C21_EveryFrameWaitedOnce ==
  LET waits == FrameWaits
  IN  /\ Len(waits) = fi
      /\ \A k \in DOMAIN waits : waits[k].idx = k
      /\ fi <= nframes
      /\ pc = "frame_wait" => fi < nframes
      /\ (PastMainWait /\ pc \notin LoopLabels \cup {"main_wait"}) =>
           /\ nframes >= 1
           /\ Len(waits) = nframes
           /\ pc = "steps" \/ \E k \in DOMAIN trace : trace[k].at = "step"

(* The wait for the first of two frames timed out; the second frame was    *)
(* waited for all the same.                                                *)
C21_Witness ==
  /\ pc = "steps"
  /\ nframes = 2
  /\ Len(FrameWaits) = 2
  /\ FrameWaits[1].res = "TimeoutError"


(***************************************************************************)
(* C22 -- Every login is submitted in the order email fill, password fill, *)
(* Sign In click: the two interactive statements run just before a click   *)
(* on the Sign In button, with nothing but the settle delays in between,   *)
(* are a fill of the email field and then a fill of the password field,    *)
(* both completed, so the form holds an email and a password when it is    *)
(* submitted.                                                              *)
(***************************************************************************)
IsFillOf(k, loc) ==
  /\ k >= 1
  /\ trace[k].at = "step"
  /\ trace[k].res = "ok"
  /\ Script(tc)[trace[k].idx].op = "fill"
  /\ Script(tc)[trace[k].idx].loc = loc

IsSettle(k) == k >= 1 /\ IsStep(k, {"settle"})

C22_EmailThenPasswordThenSignIn ==
  /\ \A k \in DOMAIN trace :
       (IsStep(k, {"click"}) /\ Script(tc)[trace[k].idx].loc = SignInButton) =>
         /\ k > 4
         /\ IsSettle(k - 1)
         /\ IsFillOf(k - 2, PasswordField)
         /\ IsSettle(k - 3)
         /\ IsFillOf(k - 4, EmailField)
  /\ AboutToClick(SignInButton) =>
       (ui.value[EmailField] # "" /\ ui.value[PasswordField] # "")
  /\ \A i \in DOMAIN ui.creds : ui.creds[i][1] # "" /\ ui.creds[i][2] # ""

C22_Witness ==
  /\ tc = "TC006"
  /\ Len(ui.creds) = 3


(***************************************************************************)
(* C23 -- A failure of a statement that is neither a best-effort wait nor  *)
(* an assertion (the initial page.goto, a click, a fill, a later           *)
(* page.goto) aborts the whole scenario: no later statement and no         *)
(* assertion runs, the fixed assertion diagnostic is not produced, and the *)
(* failure is what the caller receives once the teardown has run.          *)
(* Violated: a release call of the finally block that raises ends the      *)
(* teardown early and replaces the failure the caller receives.            *)
(***************************************************************************)
HardFailureAt(i) ==
  /\ trace[i].res # "ok"
  /\ \/ trace[i].at = "goto"
     \/ IsStep(i, {"click", "fill", "goto"})

Aborted(i) ==
  /\ verdict = "Failed"
  /\ pc \notin TryLabels
  /\ \A j \in DOMAIN trace : j > i => trace[j].at \in FinallyLabels
  /\ \A k \in DOMAIN exc : exc[k].msg \notin FixedDiagnostics(tc)
  /\ exc # <<>> /\ exc[1] = LibraryExc(trace[i].res, trace[i].at)

C23_HardFailureAbortsAndPropagates ==
  \A i \in DOMAIN trace :
    HardFailureAt(i) =>
      /\ Aborted(i)
      /\ pc \in EndLabels =>
           /\ Surfaced = LibraryExc(trace[i].res, trace[i].at)
           /\ \A r \in Resources : Acquired(r) => ReleaseCalls(r) # {}


(***************************************************************************)
(* C24 -- When acquisition fails part-way (the driver starts but the       *)
(* browser launch fails, or the browser launches but context creation      *)
(* fails), the teardown makes a release call on exactly the resources that *)
(* had been acquired and none on a resource that never was.  Violated:     *)
(* with driver and browser acquired, a browser.close() that raises leaves  *)
(* the finally block before pw.stop() is called.                           *)
(***************************************************************************)
PartialAcquisition ==
  \E k \in DOMAIN trace : trace[k].at \in {"launch", "new_context"} /\ trace[k].res # "ok"

C24_PartialAcquisitionReleased ==
  PartialAcquisition =>
    /\ \A r \in Resources : ~Acquired(r) => ReleaseCalls(r) = {}
    /\ \A r \in Resources : Cardinality(ReleaseCalls(r)) <= 1
    /\ pc \in EndLabels => \A r \in Resources : Acquired(r) => ReleaseCalls(r) # {}


(***************************************************************************)
(* C25 -- Teardown releases the resources in the reverse order of their    *)
(* acquisition: the driver is started before the browser is launched and   *)
(* the browser before the context is created; the context is closed before *)
(* the browser and the browser before the driver is stopped.  A resource   *)
(* is never released after the one it depends on: when a release call is   *)
(* made, everything acquired that depends on that resource has already     *)
(* been released.                                                          *)
(***************************************************************************)
(* <<r, s>>: r was created from s.                                         *)
DependsOn == {<<"context", "browser">>, <<"browser", "pw">>, <<"context", "pw">>}

LifecycleCalls == {k \in DOMAIN trace : trace[k].at \notin {"step", "frame_wait"}}

C25_ReleasedInReverseOrder ==
  LET calls == LifecycleCalls
      CallsAt(label) == {k \in calls : trace[k].at = label}
  IN
  \A d \in DependsOn :
    LET r == d[1]
        s == d[2]
        acqR == CallsAt(AcquireLabel(r))
        acqS == CallsAt(AcquireLabel(s))
        relR == CallsAt(ReleaseLabel(r))
        relS == CallsAt(ReleaseLabel(s))
    IN  /\ \A i \in acqR : \A j \in acqS : j < i /\ trace[j].res = "ok"
        /\ \A i \in relR : \A j \in relS : i < j
        /\ ((\E i \in acqR : trace[i].res = "ok") /\ relS # {}) =>
             \E i \in relR : trace[i].res = "ok" /\ \A j \in relS : i < j

C25_Witness ==
  /\ pc = "done"
  /\ \A r \in Resources : Releases(r) # {}
  /\ verdict = "Failed"


(***************************************************************************)
(* C26 -- A scenario's verdict is Pass if and only if every statement that *)
(* is not a best-effort wait succeeded and every one of its assertions     *)
(* succeeded, in listed order; a scenario with several assertions passes   *)
(* only when all of them hold, and Pass is never reported after a failed   *)
(* assertion.  The verdict reported is what the caller of run_test is      *)
(* left with: nothing (Pass) or an exception (Fail).  Violated: when all   *)
(* statements and assertions succeeded and a release call of the finally   *)
(* block raises, the caller is left with that exception.                   *)
(***************************************************************************)
AllSucceeded ==
  LET calls == StepCalls
  IN  /\ Len(calls) = Len(Script(tc))
      /\ \A k \in DOMAIN calls : calls[k].res = "ok"
      /\ \A k \in DOMAIN trace : trace[k].at \in TryLabels \ WaitLabels => trace[k].res = "ok"

Reported == IF stderr = <<>> THEN "Pass" ELSE "Fail"

C26_PassIffAllSucceeded ==
  /\ pc \notin TryLabels => (verdict = "Passed" <=> AllSucceeded)
  /\ pc = "exited" => (Reported = "Pass" <=> AllSucceeded)
  /\ (pc = "exited" /\ AssertionFailed) => Reported = "Fail"


(***************************************************************************)
(* C27 -- Every scenario terminates: provided every call it awaits         *)
(* eventually returns or raises, run_test always gets through its finally  *)
(* block and the interpreter exits.  Every wait, delay, click, fill and    *)
(* expectation is one call, the only loop runs once per frame of a finite  *)
(* list, and no statement is ever repeated.  When no release call raised,  *)
(* every acquired resource has been released by then.                      *)
(***************************************************************************)
Exited ==
  /\ pc = "exited"
  /\ verdict \in {"Passed", "Failed"}
  /\ ~TeardownRaised => \A r \in Resources : Acquired(r) => Releases(r) # {}

C27_Terminates == <>Exited

C27_Witness ==
  /\ tc = "TC019"
  /\ Exited
  /\ Len(StepCalls) = Len(Script(tc))
  /\ nframes = 2

=============================================================================
